---- MODULE Spec2Model ----
(***************************************************************************)
(* Model of e9tool's call/print metadata generator                         *)
(* (src/src/e9tool/e9metadata.cpp).  One build of buildMetadata() is a     *)
(* sequential state machine; the helpers it calls are operators that       *)
(* return the tokens they emit together with the updated CallInfo.         *)
(***************************************************************************)
EXTENDS Integers, Sequences, FiniteSets, TLC

(***************************************************************************)
(* Wide integers.  An intptr_t/int64_t value v is the pair <<h, l>> with   *)
(* v = h * 2^30 + l and 0 <= l < 2^30, so that values either side of the   *)
(* 32-bit boundaries can be told apart.                                    *)
(***************************************************************************)
B30 == 2^30

W(i) == <<i \div B30, i % B30>>

WAdd(a, b) ==
    LET l == a[2] + b[2]
    IN  <<a[1] + b[1] + (l \div B30), l % B30>>

WLe(a, b) == a[1] < b[1] \/ (a[1] = b[1] /\ a[2] <= b[2])

WLt(a, b) == WLe(a, b) /\ a # b

\* <stdint.h> limits as wide integers.
INT32_MAX == <<1, B30 - 1>>
INT32_MIN == <<-2, 0>>
UINT32_MAX == <<3, B30 - 1>>
INT8_MAX == W(127)
INT8_MIN == W(-128)

FitsI32(a) == WLe(INT32_MIN, a) /\ WLe(a, INT32_MAX)

\* Conversion of a wider integer to int32_t: the low 32 bits, read as signed.
ToInt32(a) ==
    LET h == a[1] % 4
    IN  <<IF h >= 2 THEN h - 4 ELSE h, a[2]>>

\* The low 32 bits read as unsigned.
ToUInt32(a) == <<a[1] % 4, a[2]>>

(***************************************************************************)
(* Registers.  Register indices follow the order of the B/X/R/REG tables   *)
(* of sendLoadFromMemOpToR64.                                              *)
(***************************************************************************)
RegNames ==
    <<"rdi", "rsi", "rdx", "rcx", "r8", "r9", "eflags", "rax", "r10", "r11",
      "rbx", "rbp", "r12", "r13", "r14", "r15", "rsp", "rip">>

RMAX_IDX == 17
RAX_IDX == 7
RSP_IDX == 16

REGISTER_NONE == "none"
REGISTER_INVALID == "invalid"

Regs64 == {RegNames[i] : i \in 1..Len(RegNames)}

SubRegs ==
    [eax |-> "rax", ecx |-> "rcx", ebx |-> "rbx", esp |-> "rsp", ebp |-> "rbp",
     r13d |-> "r13", eip |-> "rip", ax |-> "rax", sp |-> "rsp", al |-> "rax",
     ah |-> "rax", spl |-> "rsp"]

Regs32 == {"eax", "ecx", "ebx", "esp", "ebp", "r13d", "eip"}
Regs16 == {"ax", "sp"}
Regs8 == {"al", "ah", "spl"}

getCanonicalReg(reg) ==
    IF reg \in DOMAIN SubRegs THEN SubRegs[reg] ELSE reg

getRegIdx(reg) ==
    LET c == getCanonicalReg(reg)
    IN  IF c \in Regs64
        THEN (CHOOSE i \in 1..Len(RegNames) : RegNames[i] = c) - 1
        ELSE -1

getReg(regno) ==
    IF regno \in 0..RMAX_IDX THEN RegNames[regno + 1] ELSE REGISTER_INVALID

getRegSize(reg) ==
    IF reg \in Regs32 THEN 4
    ELSE IF reg \in Regs16 THEN 2
    ELSE IF reg \in Regs8 THEN 1
    ELSE IF reg \in Regs64 THEN 8
    ELSE IF reg = "xmm0" THEN 16
    ELSE 0

getRegHigh(reg) == reg = "ah"

\* System V argument registers: six register slots, then two stack slots
\* staged in %r10 and %r11.
getArgRegIdx(argno) ==
    IF argno \in 0..5 THEN argno
    ELSE IF argno = 6 THEN 8
    ELSE IF argno = 7 THEN 9
    ELSE -1

(***************************************************************************)
(* Tokens of the output stream.  Every token is a record of one shape:     *)
(* op names the instruction or datum, r and s are small integers           *)
(* (register indices, stack offsets, byte values), v is a wide integer.    *)
(***************************************************************************)
Tok(op, r, s, v) == [op |-> op, r |-> r, s |-> s, v |-> v]

Zero == W(0)

\* mov $imm32,%r64 (sign-extended)
sendSExtFromI32ToR64(value, regno) == <<Tok("movsx_i32", regno, 0, ToInt32(value))>>
\* mov $imm32,%r32 (zero-extended)
sendZExtFromI32ToR64(value, regno) == <<Tok("movzx_i32", regno, 0, ToInt32(value))>>
\* movabs $imm64,%r64
sendMovFromI64ToR64(value, regno) == <<Tok("mov_i64", regno, 0, value)>>
sendMovFromR64ToR64(src, dst) == <<Tok("mov_r64", dst, src, Zero)>>
sendMovFromR32ToR64(src, dst) == <<Tok("mov_r32", dst, src, Zero)>>
sendMovFromR16ToR64(src, dst) == <<Tok("mov_r16", dst, src, Zero)>>
sendMovFromR8ToR64(src, high, dst) ==
    <<Tok(IF high THEN "mov_r8h" ELSE "mov_r8", dst, src, Zero)>>
sendMovFromRAX16ToR64(dst) == <<Tok("mov_ax", dst, RAX_IDX, Zero)>>
sendMovFromR64ToStack(src, offset) == <<Tok("store_stack", src, offset, Zero)>>
sendMovFromStackToR64(offset, dst) == <<Tok("load_stack", dst, offset, Zero)>>
sendMovFromStack32ToR64(offset, dst) == <<Tok("load_stack32", dst, offset, Zero)>>
sendMovFromStack16ToR64(offset, dst) == <<Tok("load_stack16", dst, offset, Zero)>>
sendMovFromStack8ToR64(offset, dst) == <<Tok("load_stack8", dst, offset, Zero)>>
sendLeaFromStackToR64(offset, dst) == <<Tok("lea_stack", dst, offset, Zero)>>
\* lea rel32(%rip),%r64 with a numeric displacement / with a label
sendLeaFromPCRelToR64(value, dst) == <<Tok("lea_pcrel", dst, 0, value)>>
sendLeaFromLabelToR64(label, dst) == <<Tok("lea_" \o label, dst, 0, Zero)>>
sendMovFromPCRelToR64(value, dst) == <<Tok("mov_pcrel", dst, 0, value)>>
Byte(b) == Tok("byte", b, 0, Zero)
Label(name, regno) == Tok("label_" \o name, regno, 0, Zero)

(***************************************************************************)
(* CallInfo: the register state of one build.  pushed is the push order;   *)
(* clobbered, used and caller_save are sets of canonical registers, all    *)
(* subsets of the pushed registers; rsp_offset is the distance from the    *)
(* current %rsp back to the original %rsp.                                 *)
(***************************************************************************)
Range(s) == {s[i] : i \in 1..Len(s)}

IndexOf(s, x) == CHOOSE i \in 1..Len(s) : s[i] = x

NoOffset == 0 - 1

REDZONE == 16384

StateSave ==
    <<"rip", "rsp", "rax", "rcx", "rdx", "rbx", "rbp", "rsi", "rdi", "r8",
      "r9", "r10", "r11", "r12", "r13", "r14", "r15", "eflags">>

CleanSave ==
    <<"r11", "r10", "r9", "r8", "rcx", "rdx", "rsi", "rdi", "rax", "eflags">>

Min(a, b) == IF a < b THEN a ELSE b

\* The registers the trampoline has pushed before loadArgs runs.
getCallerSaveRegs(clean, state, conditional, num_args) ==
    IF state THEN StateSave
    ELSE IF clean THEN CleanSave
    ELSE (IF conditional THEN <<"rax", "eflags">> ELSE <<>>) \o
         [i \in 1..Min(num_args, 8) |-> getReg(getArgRegIdx(Min(num_args, 8) - i))]

CallInfo(clean, state, conditional, num_args, before) ==
    LET rsave == getCallerSaveRegs(clean, state, conditional, num_args)
    IN  [pushed |-> rsave,
         clobbered |-> {},
         used |-> {},
         caller_save |-> Range(rsave),
         rsp_offset |-> REDZONE + 8 * Len(rsave),
         before |-> before]

isSaved(info, reg) == getCanonicalReg(reg) \in Range(info.pushed)
isClobbered(info, reg) == getCanonicalReg(reg) \in info.clobbered
isUsed(info, reg) == getCanonicalReg(reg) \in info.used
isCallerSave(info, reg) == getCanonicalReg(reg) \in info.caller_save

\* Offset of reg's saved slot from the current %rsp.
getOffset(info, reg) ==
    IF isSaved(info, reg)
    THEN 8 * (Len(info.pushed) - IndexOf(info.pushed, getCanonicalReg(reg)))
    ELSE NoOffset

clobber(info, reg) ==
    IF isSaved(info, reg)
    THEN [info EXCEPT !.clobbered = @ \cup {getCanonicalReg(reg)}]
    ELSE info

use(info, reg) ==
    IF isSaved(info, reg)
    THEN [info EXCEPT !.used = @ \cup {getCanonicalReg(reg)}]
    ELSE info

restore(info, reg) == [info EXCEPT !.clobbered = @ \ {getCanonicalReg(reg)}]

push(info, reg) ==
    [info EXCEPT !.pushed = Append(@, getCanonicalReg(reg)),
                 !.rsp_offset = @ + 8]

\* pop(): the most recently pushed register, REGISTER_INVALID when none is left.
popReg(info) ==
    IF info.pushed = <<>> THEN REGISTER_INVALID ELSE info.pushed[Len(info.pushed)]

popInfo(info) ==
    IF info.pushed = <<>> THEN info
    ELSE [info EXCEPT !.pushed = SubSeq(@, 1, Len(@) - 1)]

\* call(): the callee has run; no argument register is live any more, the
\* caller-save registers hold garbage, and a conditional call's result is
\* live in %rax.
call(info, conditional) ==
    [info EXCEPT !.used = IF conditional THEN {"rax"} \cap Range(info.pushed) ELSE {},
                 !.clobbered = @ \cup info.caller_save]

\* getScratch(exclude): a saved general-purpose register that is neither used
\* nor excluded (a clobbered one first, the lowest index first), or
\* REGISTER_INVALID.
ScratchCandidates(info, exclude) ==
    {r \in Range(info.pushed) :
        /\ r \notin {"rsp", "rip", "eflags"}
        /\ r \notin info.used
        /\ r \notin Range(exclude)}

LowestReg(S) == CHOOSE r \in S : \A q \in S : getRegIdx(r) <= getRegIdx(q)

getScratch(info, exclude) ==
    LET cand == ScratchCandidates(info, exclude)
        clob == cand \cap info.clobbered
    IN  IF clob # {} THEN LowestReg(clob)
        ELSE IF cand # {} THEN LowestReg(cand)
        ELSE REGISTER_INVALID

(***************************************************************************)
(* sendPush / sendPop.  A general-purpose register is pushed directly;     *)
(* %rsp, %rip and %eflags go through a scratch register; any other         *)
(* register cannot be pushed.                                              *)
(***************************************************************************)
sendPush(offset, before, reg, rscratch) ==
    LET regno == getRegIdx(reg)
        special == getCanonicalReg(reg) \in {"rsp", "rip", "eflags"}
    IN  IF regno < 0
        THEN [first |-> FALSE, second |-> FALSE, toks |-> <<>>]
        ELSE [first |-> TRUE,
              second |-> special /\ rscratch # REGISTER_INVALID,
              toks |-> <<Tok("push", regno, getRegIdx(rscratch), Zero)>>]

sendPop(preserve_rax, reg, rscratch) ==
    [clobbers |-> reg = "eflags" /\ preserve_rax /\ rscratch # REGISTER_INVALID,
     toks |-> <<Tok("pop", getRegIdx(reg), getRegIdx(rscratch), Zero)>>]

(***************************************************************************)
(* Value loads and the temporary-register protocol.                        *)
(***************************************************************************)
\* sendLoadValueMetadata, with its range tests inverted (zero-extension
\* tried first).
sendLoadValueMetadata_ZExtFirst(value, argno) ==
    IF WLe(Zero, value) /\ WLe(value, UINT32_MAX)
    THEN sendZExtFromI32ToR64(value, argno)
    ELSE IF WLe(INT32_MIN, value) /\ WLe(value, INT32_MAX)
    THEN sendSExtFromI32ToR64(value, argno)
    ELSE sendMovFromI64ToR64(value, argno)

sendLoadValueMetadata(value, argno) ==
    IF WLe(INT32_MIN, value) /\ WLe(value, INT32_MAX)
    THEN sendSExtFromI32ToR64(value, argno)
    ELSE IF WLe(Zero, value) /\ WLe(value, UINT32_MAX)
    THEN sendZExtFromI32ToR64(value, argno)
    ELSE sendMovFromI64ToR64(value, argno)

\* The "no need to save" token (INT32_MAX as an int).
NOT_SAVED == 2147483647

\* Results of the temporary operations: the scratch token, the tokens
\* emitted, the updated CallInfo and the updated redzone slot counter.
TempResult(scratch, toks, info, slot) ==
    [scratch |-> scratch, toks |-> toks, info |-> info, slot |-> slot]

\* sendTemporaryMovReg, pushing the register where no scratch register is
\* free.
sendTemporaryMovReg_Push(info, reg, exclude, slot) ==
    LET regno == getRegIdx(reg)
        Mov(rscratch) ==
            IF rscratch # REGISTER_INVALID
            THEN TempResult(getRegIdx(rscratch),
                            sendMovFromR64ToR64(regno, getRegIdx(rscratch)),
                            clobber(info, rscratch), slot)
            ELSE TempResult(slot - 1, <<Tok("push", regno, -1, Zero)>>,
                            [info EXCEPT !.rsp_offset = @ + 8], slot - 1)
    IN  Mov(getScratch(info, exclude))

sendTemporaryMovReg(info, reg, exclude, slot) ==
    LET regno == getRegIdx(reg)
        Mov(rscratch) ==
            IF rscratch # REGISTER_INVALID
            THEN TempResult(getRegIdx(rscratch),
                            sendMovFromR64ToR64(regno, getRegIdx(rscratch)),
                            clobber(info, rscratch), slot)
            ELSE TempResult(slot - 1,
                            sendMovFromR64ToStack(regno, 8 * (slot - 1)),
                            info, slot - 1)
    IN  Mov(getScratch(info, exclude))

sendTemporarySaveReg(info, reg, exclude, slot) ==
    IF isClobbered(info, reg)
    THEN TempResult(NOT_SAVED, <<>>, info, slot)
    ELSE sendTemporaryMovReg(info, reg, exclude, slot)

\* sendTemporaryRestoreReg without the reload of the original value.
sendTemporaryRestoreReg_NoReload(info, reg, exclude, slot) ==
    IF ~isClobbered(info, reg)
    THEN TempResult(NOT_SAVED, <<>>, info, slot)
    ELSE IF ~isUsed(info, reg)
    THEN TempResult(NOT_SAVED, <<>>, restore(info, reg), slot)
    ELSE sendTemporaryMovReg(info, reg, exclude, slot)

sendTemporaryRestoreReg(info, reg, exclude, slot) ==
    LET Reload(m) ==
            TempResult(m.scratch,
                       m.toks \o sendMovFromStackToR64(getOffset(m.info, reg),
                                                       getRegIdx(reg)),
                       m.info, m.slot)
    IN  IF ~isClobbered(info, reg)
        THEN TempResult(NOT_SAVED, <<>>, info, slot)
        ELSE IF ~isUsed(info, reg)
        THEN TempResult(NOT_SAVED,
                        sendMovFromStackToR64(getOffset(info, reg), getRegIdx(reg)),
                        restore(info, reg), slot)
        ELSE Reload(sendTemporaryMovReg(info, reg, exclude, slot))

\* sendUndoTemporaryMovReg with the stack case reading the wrong slot.
sendUndoTemporaryMovReg_WrongSlot(reg, scratch) ==
    IF scratch > RMAX_IDX THEN <<>>
    ELSE IF scratch >= 0
    THEN sendMovFromR64ToR64(getRegIdx(reg), scratch)
    ELSE sendMovFromStackToR64(8 * (scratch - 1), getRegIdx(reg))

sendUndoTemporaryMovReg(reg, scratch) ==
    IF scratch > RMAX_IDX THEN <<>>
    ELSE IF scratch >= 0
    THEN sendMovFromR64ToR64(scratch, getRegIdx(reg))
    ELSE sendMovFromStackToR64(8 * scratch, getRegIdx(reg))

SaveResult(ok, toks, info) == [ok |-> ok, toks |-> toks, info |-> info]

sendSaveRegToStack(info, reg) ==
    LET Pushed(rscratch, result) ==
            IF result.first
            THEN SaveResult(TRUE, result.toks,
                            IF result.second
                            THEN clobber(push(info, reg), rscratch)
                            ELSE push(info, reg))
            ELSE SaveResult(FALSE, result.toks, info)
        Push(rscratch) ==
            Pushed(rscratch, sendPush(info.rsp_offset, info.before, reg, rscratch))
    IN  IF isSaved(info, reg) THEN SaveResult(TRUE, <<>>, info)
        ELSE Push(IF isClobbered(info, "rax") THEN "rax"
                  ELSE getScratch(info, <<>>))

(***************************************************************************)
(* sendLoadFromMemOpToR64: the mov/lea encoder for a memory operand.       *)
(* I is the instruction (address, size); disp is an int32_t.  ub is the    *)
(* outcome of the signed overflow of "disp += info.rsp_offset", which the  *)
(* language leaves undefined: "wrap" (two's complement) or "trap".         *)
(***************************************************************************)
UBOutcomes == {"wrap", "trap"}

TableB == <<0, 0, 0, 0, 1, 1, 0, 0, 1, 1, 0, 0, 1, 1, 1, 1, 0>>
TableX == <<0, 0, 0, 0, 2, 2, 0, 0, 2, 2, 0, 0, 2, 2, 2, 2, 0>>
TableR == <<0, 0, 0, 0, 4, 4, 0, 0, 4, 4, 0, 0, 4, 4, 4, 4, 0>>
TableREG == <<7, 6, 2, 1, 0, 1, 0, 0, 2, 3, 3, 5, 4, 5, 6, 7, 4>>

\* What an emitting routine hands back: its return value, the tokens written,
\* the updated CallInfo, the warnings printed, and whether the process died.
MemResult(ok, toks, info, warn, fatal) ==
    [ok |-> ok, toks |-> toks, info |-> info, warn |-> warn, fatal |-> fatal]

\* The displacement after the %rsp adjustment (lines 311-312), as int32_t.
AdjustRSP(info, disp, base_reg, ub) ==
    IF base_reg \in {"rsp", "esp"}
    THEN LET sum == WAdd(disp, W(info.rsp_offset))
         IN  IF FitsI32(sum) THEN sum ELSE ToInt32(sum)
    ELSE disp

OverflowsRSP(info, disp, base_reg) ==
    base_reg \in {"rsp", "esp"} /\ ~FitsI32(WAdd(disp, W(info.rsp_offset)))

\* The displacement after the %rip adjustment (line 317), stored back into
\* the int32_t disp.
AdjustRIP(I, disp, base_reg) ==
    IF base_reg \in {"rip", "eip"}
    THEN ToInt32(WAdd(disp, WAdd(I.address, W(I.size))))
    ELSE disp

SegPrefix(seg_reg) ==
    IF seg_reg = "fs" THEN 100 ELSE IF seg_reg = "gs" THEN 101 ELSE 0

SizePrefix(base_reg, index_reg) ==
    IF index_reg \in Regs32 \ {"eip"} THEN 103
    ELSE IF base_reg \in Regs32 THEN 103
    ELSE 0

NeedSIB(base_reg, index_reg) ==
    \/ index_reg # REGISTER_NONE
    \/ base_reg \in {"rsp", "esp"}
    \/ base_reg \in {"r12", "r12d"}
    \/ base_reg = REGISTER_NONE

ScaleBits(scale) ==
    IF scale = 2 THEN 1 ELSE IF scale = 4 THEN 2 ELSE IF scale = 8 THEN 3 ELSE 0

\* mod and disp_size for a base that is not %rip (lines 354-375).
\* The choice of the displacement size without the test on the base register.
DispMode_ZeroAlwaysBare(disp, base_reg) ==
    IF base_reg = REGISTER_NONE THEN [disp_size |-> 4, mod |-> 0]
    ELSE IF disp = Zero
    THEN [disp_size |-> 0, mod |-> 0]
    ELSE IF WLe(INT8_MIN, disp) /\ WLe(disp, INT8_MAX)
    THEN [disp_size |-> 1, mod |-> 1]
    ELSE [disp_size |-> 4, mod |-> 2]

DispMode(disp, base_reg) ==
    IF base_reg = REGISTER_NONE THEN [disp_size |-> 4, mod |-> 0]
    ELSE IF disp = Zero /\ base_reg \notin {"rbp", "ebp", "r13", "r13d"}
    THEN [disp_size |-> 0, mod |-> 0]
    ELSE IF WLe(INT8_MIN, disp) /\ WLe(disp, INT8_MAX)
    THEN [disp_size |-> 1, mod |-> 1]
    ELSE [disp_size |-> 4, mod |-> 2]

OpcodeBytes(lea, size) ==
    IF lea THEN <<Byte(141)>>
    ELSE IF size = 8 THEN <<Byte(139)>>
    ELSE IF size = 4 THEN <<Byte(99)>>
    ELSE IF size = 2 THEN <<Byte(15), Byte(191)>>
    ELSE IF size = 1 THEN <<Byte(15), Byte(190)>>
    ELSE <<>>

SizeOK(lea, size) == lea \/ size \in {1, 2, 4, 8}

\* The range test of line 377, on the int32_t disp.
DispOutOfBounds(disp) == WLt(disp, INT32_MIN) \/ WLt(INT32_MAX, disp)

sendLoadFromMemOpToR64(I, info, size, seg_reg, disp0, base_reg, index_reg, scale, lea, regno, ub) ==
    IF lea /\ seg_reg \in {"fs", "gs"}
    THEN MemResult(FALSE, sendSExtFromI32ToR64(Zero, regno), info,
                   <<"segment">>, FALSE)
    ELSE IF OverflowsRSP(info, disp0, base_reg) /\ ub = "trap"
    THEN MemResult(FALSE, <<>>, info, <<>>, TRUE)
    ELSE
    LET seg_prefix == SegPrefix(seg_reg)
        size_prefix == SizePrefix(base_reg, index_reg)
        b == IF base_reg \in {REGISTER_NONE, "rip", "eip"} THEN 0
             ELSE TableB[getRegIdx(base_reg) + 1]
        x == IF index_reg = REGISTER_NONE THEN 0
             ELSE TableX[getRegIdx(index_reg) + 1]
        r == TableR[regno + 1]
        rex == 72 + r + x + b
        reg == TableREG[regno + 1]
        rip == base_reg \in {"rip", "eip"}
        disp == AdjustRIP(I, AdjustRSP(info, disp0, base_reg, ub), base_reg)
        have_sib == ~rip /\ NeedSIB(base_reg, index_reg)
        sib == LET base == IF base_reg = REGISTER_NONE THEN 5
                           ELSE TableREG[getRegIdx(base_reg) + 1]
                   index == IF index_reg = REGISTER_NONE THEN 4
                            ELSE TableREG[getRegIdx(index_reg) + 1]
               IN  ScaleBits(scale) * 64 + index * 8 + base
        rm == IF rip THEN 5
              ELSE IF have_sib THEN 4
              ELSE TableREG[getRegIdx(base_reg) + 1]
        dm == IF rip THEN [disp_size |-> 4, mod |-> 0]
              ELSE DispMode(disp, base_reg)
        modrm == dm.mod * 64 + reg * 8 + rm
    IN
    IF DispOutOfBounds(disp)
    THEN MemResult(FALSE, sendSExtFromI32ToR64(Zero, regno), info,
                   <<"displacement">>, FALSE)
    ELSE
    LET exclude == <<getReg(regno)>> \o
                   (IF base_reg # REGISTER_NONE
                    THEN <<getCanonicalReg(base_reg)>> ELSE <<>>) \o
                   <<getCanonicalReg(index_reg)>>
        Prefixes(t1, t2) ==
            t1.toks \o t2.toks \o
            (IF seg_prefix # 0 THEN <<Byte(seg_prefix)>> ELSE <<>>) \o
            (IF size_prefix # 0 THEN <<Byte(size_prefix)>> ELSE <<>>) \o
            <<Byte(rex)>>
        Encode(t1, t2) ==
            IF ~SizeOK(lea, size)
            THEN MemResult(FALSE, Prefixes(t1, t2) \o sendSExtFromI32ToR64(Zero, regno),
                           t2.info, <<"size">>, FALSE)
            ELSE MemResult(TRUE,
                    Prefixes(t1, t2) \o OpcodeBytes(lea, size) \o <<Byte(modrm)>> \o
                    (IF have_sib THEN <<Byte(sib)>> ELSE <<>>) \o
                    (IF rip THEN <<Tok("rel32", 0, 0, ToInt32(disp))>>
                     ELSE IF dm.disp_size = 1
                     THEN <<Tok("int8", 0, 0, ToInt32(disp))>>
                     ELSE IF dm.disp_size = 4
                     THEN <<Tok("int32", 0, 0, ToInt32(disp))>>
                     ELSE <<>>) \o
                    sendUndoTemporaryMovReg(base_reg, t1.scratch) \o
                    sendUndoTemporaryMovReg(index_reg, t2.scratch),
                    t2.info, <<>>, FALSE)
        Index(t1) ==
            Encode(t1, IF index_reg # base_reg
                       THEN sendTemporaryRestoreReg(t1.info, index_reg, exclude,
                                                    t1.slot)
                       ELSE TempResult(NOT_SAVED, <<>>, t1.info, t1.slot))
    IN  Index(sendTemporaryRestoreReg(info, base_reg, exclude, 0))

(***************************************************************************)
(* Instructions, operands and types.                                       *)
(***************************************************************************)
NoMem == [seg |-> REGISTER_NONE, disp |-> Zero, base |-> REGISTER_NONE,
          index |-> REGISTER_NONE, scale |-> 1]

Mem(seg, disp, base, index, scale) ==
    [seg |-> seg, disp |-> disp, base |-> base, index |-> index, scale |-> scale]

OpInfo(type, size, access, reg, imm, mem) ==
    [type |-> type, size |-> size, access |-> access, reg |-> reg, imm |-> imm,
     mem |-> mem]

\* The null operand pointer.
NullOp == OpInfo("null", 0, 0, REGISTER_NONE, Zero, NoMem)

ACCESS_READ == 1
ACCESS_WRITE == 2
ACCESS_ANY == 3
PROT_READ == 1

\* getOperand: the idx-th operand of the requested class whose access meets
\* the filter (an immediate counts as read; the read|write filter of op/imm/
\* reg/mem admits every operand), or the null operand.
OperandMatches(op, type, access) ==
    /\ type = "any" \/ op.type = type
    /\ \/ access = ACCESS_ANY
       \/ op.type = "imm" /\ access = ACCESS_READ
       \/ op.type # "imm" /\ op.access \in {access, ACCESS_ANY}

getOperand(I, idx, type, access) ==
    LET match == {i \in 1..Len(I.op) : OperandMatches(I.op[i], type, access)}
        nth == {i \in match : Cardinality({j \in match : j < i}) = idx}
    IN  IF nth = {} THEN NullOp ELSE I.op[CHOOSE i \in nth : TRUE]

Type(base, ptr, const) == [base |-> base, ptr |-> ptr, const |-> const]
TYPE_NULL_PTR == Type("nullptr", FALSE, FALSE)
TYPE_INT8 == Type("int8", FALSE, FALSE)
TYPE_INT16 == Type("int16", FALSE, FALSE)
TYPE_INT32 == Type("int32", FALSE, FALSE)
TYPE_INT64 == Type("int64", FALSE, FALSE)
TYPE_CONST_VOID_PTR == Type("void", TRUE, TRUE)
TYPE_CONST_CHAR_PTR == Type("char", TRUE, TRUE)
TYPE_CONST_INT8_PTR == Type("int8", TRUE, TRUE)
TYPE_VOID_PTR == Type("void", TRUE, FALSE)
OrPtr(t) == [t EXCEPT !.ptr = TRUE]
OrConst(t) == [t EXCEPT !.const = TRUE]

SizeType(size) ==
    IF size = 1 THEN TYPE_INT8
    ELSE IF size = 2 THEN TYPE_INT16
    ELSE IF size = 4 THEN TYPE_INT32
    ELSE IF size = 8 THEN TYPE_INT64
    ELSE TYPE_NULL_PTR

getRegType(reg) == SizeType(IF getRegIdx(reg) < 0 THEN 0 ELSE getRegSize(reg))

\* getOperandType without the widening of a 32-bit register type.
getOperandType_NoWiden(I, op, ptr, field) ==
    IF op = NullOp THEN TYPE_NULL_PTR
    ELSE IF field \in {"access", "type"} THEN TYPE_INT8
    ELSE IF field = "size" THEN TYPE_INT64
    ELSE IF field = "displ"
    THEN (IF op.type = "mem" THEN TYPE_INT32 ELSE TYPE_NULL_PTR)
    ELSE IF field \in {"base", "index"}
    THEN LET t == IF op.type = "mem"
                  THEN getRegType(IF field = "base" THEN op.mem.base
                                  ELSE op.mem.index)
                  ELSE TYPE_NULL_PTR
         IN  IF ptr /\ t # TYPE_NULL_PTR THEN OrPtr(t) ELSE t
    ELSE IF field = "scale"
    THEN (IF op.type = "mem" THEN TYPE_INT8 ELSE TYPE_NULL_PTR)
    ELSE
    LET sized == IF op.size \in {1, 2, 4, 8} THEN SizeType(op.size)
                 ELSE IF ptr THEN TYPE_INT8 ELSE TYPE_NULL_PTR
        t == IF op.type = "reg"
             THEN getRegType(op.reg)
             ELSE IF op.type = "mem" THEN sized
             ELSE IF op.type = "imm"
             THEN (IF ptr THEN OrConst(sized) ELSE sized)
             ELSE TYPE_NULL_PTR
    IN  IF op.type \notin {"reg", "mem", "imm"} THEN TYPE_NULL_PTR
        ELSE IF ptr /\ t # TYPE_NULL_PTR THEN OrPtr(t)
        ELSE t

getOperandType(I, op, ptr, field) ==
    IF op = NullOp THEN TYPE_NULL_PTR
    ELSE IF field \in {"access", "type"} THEN TYPE_INT8
    ELSE IF field = "size" THEN TYPE_INT64
    ELSE IF field = "displ"
    THEN (IF op.type = "mem" THEN TYPE_INT32 ELSE TYPE_NULL_PTR)
    ELSE IF field \in {"base", "index"}
    THEN LET t == IF op.type = "mem"
                  THEN getRegType(IF field = "base" THEN op.mem.base
                                  ELSE op.mem.index)
                  ELSE TYPE_NULL_PTR
         IN  IF ptr /\ t # TYPE_NULL_PTR THEN OrPtr(t) ELSE t
    ELSE IF field = "scale"
    THEN (IF op.type = "mem" THEN TYPE_INT8 ELSE TYPE_NULL_PTR)
    ELSE
    LET sized == IF op.size \in {1, 2, 4, 8} THEN SizeType(op.size)
                 ELSE IF ptr THEN TYPE_INT8 ELSE TYPE_NULL_PTR
        t == IF op.type = "reg"
             THEN (IF ptr /\ getRegType(op.reg) = TYPE_INT32 THEN TYPE_INT64
                   ELSE getRegType(op.reg))
             ELSE IF op.type = "mem" THEN sized
             ELSE IF op.type = "imm"
             THEN (IF ptr THEN OrConst(sized) ELSE sized)
             ELSE TYPE_NULL_PTR
    IN  IF op.type \notin {"reg", "mem", "imm"} THEN TYPE_NULL_PTR
        ELSE IF ptr /\ t # TYPE_NULL_PTR THEN OrPtr(t)
        ELSE t

\* The opcode table with the opcodes of je and jne exchanged.
Jcc_Swapped ==
    [jo |-> 112, jno |-> 113, jb |-> 114, jae |-> 115, je |-> 117,
     jne |-> 116, jbe |-> 118, ja |-> 119, js |-> 120, jns |-> 121,
     jp |-> 122, jnp |-> 123, jl |-> 124, jge |-> 125, jle |-> 126,
     jg |-> 127]

Jcc == [jo |-> 112, jno |-> 113, jb |-> 114, jae |-> 115, je |-> 116,
        jne |-> 117, jbe |-> 118, ja |-> 119, js |-> 120, jns |-> 121,
        jp |-> 122, jnp |-> 123, jl |-> 124, jge |-> 125, jle |-> 126,
        jg |-> 127]

ControlFlow == DOMAIN Jcc \cup {"call", "jmp", "jcxz", "jecxz", "jrcxz"}

(***************************************************************************)
(* Register, operand, target and next-address loads.                       *)
(***************************************************************************)
Warn0(toks, info) == MemResult(TRUE, toks, info, <<>>, FALSE)

\* sendLoadRegToArg(out, reg, info, argno): the register's original value.
sendLoadRegValue(reg, info, argno) ==
    LET size == getRegSize(reg)
    IN  IF isClobbered(info, reg)
        THEN (IF size = 4 THEN sendMovFromStack32ToR64(getOffset(info, reg), argno)
              ELSE IF size = 2
              THEN sendMovFromStack16ToR64(getOffset(info, reg), argno)
              ELSE IF size = 1
              THEN sendMovFromStack8ToR64(
                       getOffset(info, reg) + (IF getRegHigh(reg) THEN 1 ELSE 0),
                       argno)
              ELSE sendMovFromStackToR64(getOffset(info, reg), argno))
        ELSE (IF size = 4 THEN sendMovFromR32ToR64(getRegIdx(reg), argno)
              ELSE IF size = 2 THEN sendMovFromR16ToR64(getRegIdx(reg), argno)
              ELSE IF size = 1
              THEN sendMovFromR8ToR64(getRegIdx(reg), getRegHigh(reg), argno)
              ELSE sendMovFromR64ToR64(getRegIdx(reg), argno))

\* sendLoadRegToArg(out, I, reg, ptr, info, argno): by value or by reference.
sendLoadRegToArg(I, reg, ptr, info, argno) ==
    LET Saved(sv) ==
            IF ~sv.ok
            THEN MemResult(FALSE, sv.toks \o sendSExtFromI32ToR64(Zero, argno),
                           sv.info, <<"save">>, FALSE)
            ELSE Warn0(sv.toks \o
                       sendLeaFromStackToR64(
                           getOffset(sv.info, reg) +
                               (IF getRegHigh(reg) THEN 1 ELSE 0), argno),
                       sv.info)
    IN  IF ptr THEN Saved(sendSaveRegToStack(info, reg))
        ELSE IF getRegIdx(reg) < 0
        THEN MemResult(FALSE, sendSExtFromI32ToR64(Zero, argno), info,
                       <<"move">>, FALSE)
        ELSE Warn0(sendLoadRegValue(reg, info, argno), info)

Fail(code, info, argno) ==
    MemResult(FALSE, sendSExtFromI32ToR64(Zero, argno), info, <<code>>, FALSE)

Fields == {"none", "displ", "base", "index", "scale", "size", "type", "access"}

sendLoadOperandMetadata(I, op, ptr, field, info, argno, ub) ==
    IF field \notin Fields THEN MemResult(FALSE, <<>>, info, <<>>, TRUE)
    ELSE IF field \in {"displ", "base", "index", "scale"} /\ op.type # "mem"
    THEN Fail("nonmem", info, argno)
    ELSE IF field = "displ"
    THEN Warn0(sendLoadValueMetadata(op.mem.disp, argno), info)
    ELSE IF field = "base"
    THEN (IF op.mem.base = REGISTER_NONE THEN Fail("nobase", info, argno)
          ELSE sendLoadRegToArg(I, op.mem.base, ptr, info, argno))
    ELSE IF field = "index"
    THEN (IF op.mem.index = REGISTER_NONE THEN Fail("noindex", info, argno)
          ELSE sendLoadRegToArg(I, op.mem.index, ptr, info, argno))
    ELSE IF field = "scale"
    THEN Warn0(sendLoadValueMetadata(W(op.mem.scale), argno), info)
    ELSE IF field = "size"
    THEN Warn0(sendLoadValueMetadata(W(op.size), argno), info)
    ELSE IF field = "type"
    THEN (IF op.type = "imm" THEN Warn0(sendLoadValueMetadata(W(1), argno), info)
          ELSE IF op.type = "reg"
          THEN Warn0(sendLoadValueMetadata(W(2), argno), info)
          ELSE IF op.type = "mem"
          THEN Warn0(sendLoadValueMetadata(W(3), argno), info)
          ELSE Fail("optype", info, argno))
    ELSE IF field = "access"
    THEN (IF op.type = "imm"
          THEN Warn0(sendLoadValueMetadata(W(PROT_READ), argno), info)
          ELSE Warn0(sendLoadValueMetadata(W(128 + op.access), argno), info))
    ELSE IF op.type = "reg"
    THEN sendLoadRegToArg(I, op.reg, ptr, info, argno)
    ELSE IF op.type = "mem"
    THEN sendLoadFromMemOpToR64(I, info, op.size, op.mem.seg, op.mem.disp,
                                op.mem.base, op.mem.index, op.mem.scale, ptr,
                                argno, ub)
    ELSE IF op.type = "imm"
    THEN (IF ~ptr THEN Warn0(sendLoadValueMetadata(op.imm, argno), info)
          ELSE Warn0(sendLeaFromLabelToR64("immediate", argno), info))
    ELSE MemResult(FALSE, <<>>, info, <<>>, TRUE)

sendLoadTargetMetadata(I, info, argno, ub) ==
    LET op == IF Len(I.op) >= 1 THEN I.op[1] ELSE NullOp
    IN  IF I.mnemonic = "ret"
        THEN Warn0(sendMovFromStackToR64(info.rsp_offset, argno), info)
        ELSE IF ~(I.mnemonic \in ControlFlow /\ Len(I.op) = 1)
        THEN Warn0(sendSExtFromI32ToR64(Zero, argno), info)
        ELSE IF op.type = "reg"
        THEN (IF isClobbered(info, op.reg)
              THEN Warn0(sendMovFromStackToR64(getOffset(info, op.reg), argno),
                         info)
              ELSE Warn0(sendMovFromR64ToR64(getRegIdx(op.reg), argno), info))
        ELSE IF op.type = "mem"
        THEN sendLoadFromMemOpToR64(I, info, op.size, op.mem.seg, op.mem.disp,
                                    op.mem.base, op.mem.index, op.mem.scale,
                                    FALSE, argno, ub)
        ELSE IF op.type = "imm"
        THEN Warn0(sendLeaFromPCRelToR64(
                       WAdd(WAdd(I.address, W(I.size)), op.imm), argno), info)
        ELSE Warn0(sendSExtFromI32ToR64(Zero, argno), info)

sendLoadNextMetadata(I, info, argno, ub) ==
    LET Branch(prefix, opcode, t) ==
            [t EXCEPT !.toks =
                prefix \o <<Tok("jcc_taken", argno, opcode, Zero)>> \o
                sendLeaFromLabelToR64("continue", argno) \o
                <<Tok("jmp_next", argno, 235, Zero), Label("taken", argno)>> \o
                @ \o <<Label("next", argno)>>]
        WithRCX(r) ==
            [Branch(r.toks \o (IF I.mnemonic = "jecxz" THEN <<Byte(103)>>
                               ELSE <<>>),
                    227, sendLoadTargetMetadata(I, r.info, argno, ub))
             EXCEPT !.toks = @ \o sendUndoTemporaryMovReg("rcx", r.scratch)]
    IN  IF I.mnemonic \in {"ret", "call", "jmp"}
        THEN sendLoadTargetMetadata(I, info, argno, ub)
        ELSE IF I.mnemonic \in DOMAIN Jcc
        THEN Branch(<<>>, Jcc[I.mnemonic],
                    sendLoadTargetMetadata(I, info, argno, ub))
        ELSE IF I.mnemonic \in {"jecxz", "jrcxz"}
        THEN WithRCX(sendTemporaryRestoreReg(info, "rcx", <<getReg(argno)>>, 0))
        ELSE Warn0(sendLeaFromLabelToR64("continue", argno), info)

(***************************************************************************)
(* sendLoadArgumentMetadata: the dispatcher over argument kinds.           *)
(* ext holds the answers of the external services the argument consults    *)
(* (lookupValue, getELFObject/getELFGOTEntry, rand).                       *)
(***************************************************************************)
MemOp(size, seg, disp, base, index, scale) ==
    [size |-> size, seg |-> seg, disp |-> disp, base |-> base,
     index |-> index, scale |-> scale]

NoMemOp == MemOp(8, REGISTER_NONE, Zero, REGISTER_NONE, REGISTER_NONE, 1)

Arg(kind, ptr, value, reg, idx, field, memop) ==
    [kind |-> kind, ptr |-> ptr, value |-> value, reg |-> reg, idx |-> idx,
     field |-> field, memop |-> memop, duplicate |-> FALSE]

Ext(user_ok, obj, v) == [user_ok |-> user_ok, obj |-> obj, v |-> v]

OperandKinds == {"op", "src", "dst", "imm", "reg", "mem"}

KindAccess(kind) ==
    IF kind = "src" THEN ACCESS_READ
    ELSE IF kind = "dst" THEN ACCESS_WRITE
    ELSE ACCESS_ANY

KindOpType(kind) ==
    IF kind \in {"imm", "reg", "mem"} THEN kind ELSE "any"

ArgResult(fatal, t, toks, info, warn) ==
    [fatal |-> fatal, t |-> t, toks |-> toks, info |-> info, warn |-> warn]

TR(t, r) == [t |-> t, r |-> r]

LoadValue(t, value, info, regno) ==
    TR(t, Warn0(sendLoadValueMetadata(value, regno), info))

LoadLabel(t, label, info, regno) ==
    TR(t, Warn0(sendLeaFromLabelToR64(label, regno), info))

\* LoadRegisterByValue, with the null-pointer type for a register that
\* cannot be moved.
LoadRegisterByValue_NullOnFailure(action, arg, I, info, regno) ==
    LET reg == arg.reg
        Flags(sv) ==
            TR(TYPE_INT16,
               Warn0(sv.toks \o
                     <<Byte(15), Byte(144), Byte(192), Byte(159)>> \o
                     sendMovFromRAX16ToR64(regno) \o
                     sendUndoTemporaryMovReg("rax", sv.scratch),
                     sv.info))
    IN  IF reg = "rip"
        THEN TR(TYPE_CONST_VOID_PTR,
                Warn0((IF action.call = "after"
                       THEN sendLeaFromLabelToR64("continue", regno)
                       ELSE <<>>) \o
                      sendLeaFromLabelToR64("instruction", regno), info))
        ELSE IF reg = "spl"
        THEN TR(TYPE_INT8,
                Warn0(sendLeaFromStackToR64(info.rsp_offset, regno) \o
                      sendMovFromR8ToR64(regno, FALSE, regno), info))
        ELSE IF reg = "sp"
        THEN TR(TYPE_INT16,
                Warn0(sendLeaFromStackToR64(info.rsp_offset, regno) \o
                      sendMovFromR16ToR64(regno, regno), info))
        ELSE IF reg = "esp"
        THEN TR(TYPE_INT32,
                Warn0(sendLeaFromStackToR64(info.rsp_offset, regno) \o
                      sendMovFromR32ToR64(regno, regno), info))
        ELSE IF reg = "rsp"
        THEN TR(TYPE_INT64,
                Warn0(sendLeaFromStackToR64(info.rsp_offset, regno), info))
        ELSE IF reg = "eflags"
        THEN (IF isSaved(info, "eflags")
              THEN TR(TYPE_INT16,
                      Warn0(sendMovFromStack16ToR64(getOffset(info, "eflags"),
                                                    regno), info))
              ELSE Flags(sendTemporarySaveReg(info, "rax",
                                              <<"rax", getReg(regno)>>, 0)))
        ELSE TR(IF getRegIdx(reg) < 0 THEN TYPE_NULL_PTR
                ELSE IF getRegSize(reg) \in {1, 2, 4} THEN SizeType(getRegSize(reg))
                ELSE TYPE_INT64,
                sendLoadRegToArg(I, reg, FALSE, info, regno))

\* case ARGUMENT_REGISTER, by value (lines 1080-1152).
LoadRegisterByValue(action, arg, I, info, regno) ==
    LET reg == arg.reg
        Flags(sv) ==
            TR(TYPE_INT16,
               Warn0(sv.toks \o
                     <<Byte(15), Byte(144), Byte(192), Byte(159)>> \o
                     sendMovFromRAX16ToR64(regno) \o
                     sendUndoTemporaryMovReg("rax", sv.scratch),
                     sv.info))
    IN  IF reg = "rip"
        THEN TR(TYPE_CONST_VOID_PTR,
                Warn0((IF action.call = "after"
                       THEN sendLeaFromLabelToR64("continue", regno)
                       ELSE <<>>) \o
                      sendLeaFromLabelToR64("instruction", regno), info))
        ELSE IF reg = "spl"
        THEN TR(TYPE_INT8,
                Warn0(sendLeaFromStackToR64(info.rsp_offset, regno) \o
                      sendMovFromR8ToR64(regno, FALSE, regno), info))
        ELSE IF reg = "sp"
        THEN TR(TYPE_INT16,
                Warn0(sendLeaFromStackToR64(info.rsp_offset, regno) \o
                      sendMovFromR16ToR64(regno, regno), info))
        ELSE IF reg = "esp"
        THEN TR(TYPE_INT32,
                Warn0(sendLeaFromStackToR64(info.rsp_offset, regno) \o
                      sendMovFromR32ToR64(regno, regno), info))
        ELSE IF reg = "rsp"
        THEN TR(TYPE_INT64,
                Warn0(sendLeaFromStackToR64(info.rsp_offset, regno), info))
        ELSE IF reg = "eflags"
        THEN (IF isSaved(info, "eflags")
              THEN TR(TYPE_INT16,
                      Warn0(sendMovFromStack16ToR64(getOffset(info, "eflags"),
                                                    regno), info))
              ELSE Flags(sendTemporarySaveReg(info, "rax",
                                              <<"rax", getReg(regno)>>, 0)))
        ELSE TR(IF getRegSize(reg) \in {1, 2, 4} THEN SizeType(getRegSize(reg))
                ELSE TYPE_INT64,
                sendLoadRegToArg(I, reg, FALSE, info, regno))

\* ARGUMENT_REG_PTR (lines 1154-1171).
LoadRegisterByRef(arg, info, regno) ==
    LET reg == arg.reg
        sz == getRegSize(reg)
        Slot(sv) ==
            TR(OrPtr(IF sz \in {8, 4} THEN TYPE_INT64
                     ELSE IF sz = 2 THEN TYPE_INT16 ELSE TYPE_INT8),
               Warn0(sv.toks \o
                     sendLeaFromStackToR64(getOffset(sv.info, reg), regno),
                     sv.info))
    IN  Slot(sendSaveRegToStack(info, reg))

\* case ARGUMENT_SYMBOL (lines 1180-1214).
LoadSymbol(ext, info, regno) ==
    IF ext.obj = "undefined"
    THEN TR(TYPE_NULL_PTR, Fail("undefined", info, regno))
    ELSE IF ext.obj = "dynamic" /\ FitsI32(ext.v)
    THEN TR(TYPE_CONST_VOID_PTR, Warn0(sendMovFromPCRelToR64(ext.v, regno), info))
    ELSE IF FitsI32(ext.v)
    THEN TR(TYPE_CONST_VOID_PTR, Warn0(sendLeaFromPCRelToR64(ext.v, regno), info))
    ELSE TR(TYPE_NULL_PTR, Fail("notfound", info, regno))

\* case ARGUMENT_MEMOP (lines 1215-1234).
LoadMemOp(arg, I, info, regno, ub) ==
    LET m == arg.memop
        t0 == IF m.size \in {8, 4, 2} THEN SizeType(m.size) ELSE TYPE_INT8
        t == IF arg.ptr THEN OrPtr(t0) ELSE t0
        Typed(r) == TR(IF r.ok THEN t ELSE TYPE_NULL_PTR, r)
    IN  Typed(sendLoadFromMemOpToR64(I, info, m.size, m.seg, m.disp, m.base,
                                     m.index, m.scale, arg.ptr, regno, ub))

\* The filter without the test on the call timing.
Dangerous_IgnoresAfter(action, arg, I, op) ==
    IF ~arg.ptr /\ arg.field = "none" /\ op # NullOp /\ op.type = "mem"
    THEN (IF I.mnemonic \in {"lea", "nop"} \/ op.access = 0 THEN "unaccessed"
          ELSE "")
    ELSE ""

\* The filter of dangerous memory operand pass-by-value arguments
\* (lines 1265-1297): "after", "unaccessed" or "".
Dangerous(action, arg, I, op) ==
    IF ~arg.ptr /\ arg.field = "none" /\ op # NullOp /\ op.type = "mem"
    THEN (IF action.call = "after" THEN "after"
          ELSE IF I.mnemonic \in {"lea", "nop"} \/ op.access = 0 THEN "unaccessed"
          ELSE "")
    ELSE ""

\* The operand case with a missing operand ending the process.
LoadOperand_AbortOnMissing(action, arg, I, info, regno, ub) ==
    LET Typed(t, r) == TR(IF r.ok THEN t ELSE TYPE_NULL_PTR, r)
        Load(op, t, d) ==
            IF op = NullOp
            THEN TR(t, MemResult(FALSE, <<>>, info, <<"range">>, TRUE))
            ELSE IF d # "" THEN TR(TYPE_NULL_PTR, Fail(d, info, regno))
            ELSE Typed(t, sendLoadOperandMetadata(I, op, arg.ptr, arg.field, info,
                                                  regno, ub))
        Found(op) ==
            Load(op, getOperandType(I, op, arg.ptr, arg.field),
                 Dangerous(action, arg, I, op))
    IN  Found(getOperand(I, arg.idx, KindOpType(arg.kind), KindAccess(arg.kind)))

\* case ARGUMENT_OP .. ARGUMENT_MEM (lines 1235-1303).
LoadOperand(action, arg, I, info, regno, ub) ==
    LET Typed(t, r) == TR(IF r.ok THEN t ELSE TYPE_NULL_PTR, r)
        Load(op, t, d) ==
            IF op = NullOp THEN TR(t, Fail("range", info, regno))
            ELSE IF d # "" THEN TR(TYPE_NULL_PTR, Fail(d, info, regno))
            ELSE Typed(t, sendLoadOperandMetadata(I, op, arg.ptr, arg.field, info,
                                                  regno, ub))
        Found(op) ==
            Load(op, getOperandType(I, op, arg.ptr, arg.field),
                 Dangerous(action, arg, I, op))
    IN  Found(getOperand(I, arg.idx, KindOpType(arg.kind), KindAccess(arg.kind)))

LoadKind(action, arg, I, id, info, regno, ext, ub) ==
    CASE arg.kind = "user" ->
            IF ext.user_ok THEN LoadValue(TYPE_INT64, ext.v, info, regno)
            ELSE TR(TYPE_INT64, MemResult(FALSE, <<>>, info, <<>>, TRUE))
      [] arg.kind = "integer" -> LoadValue(TYPE_INT64, arg.value, info, regno)
      [] arg.kind = "offset" -> LoadValue(TYPE_INT64, I.offset, info, regno)
      [] arg.kind = "addr" -> LoadLabel(TYPE_CONST_VOID_PTR, "instruction", info, regno)
      [] arg.kind = "id" -> LoadValue(TYPE_INT64, id, info, regno)
      [] arg.kind = "next" ->
            IF action.call = "after"
            THEN LoadLabel(TYPE_CONST_VOID_PTR, "continue", info, regno)
            ELSE TR(TYPE_CONST_VOID_PTR, sendLoadNextMetadata(I, info, regno, ub))
      [] arg.kind = "base" ->
            TR(TYPE_CONST_VOID_PTR, Warn0(sendLeaFromPCRelToR64(Zero, regno), info))
      [] arg.kind = "staticAddr" ->
            LoadValue(TYPE_CONST_VOID_PTR, I.address, info, regno)
      [] arg.kind = "asmStr" -> LoadLabel(TYPE_CONST_CHAR_PTR, "asmStr", info, regno)
      [] arg.kind = "asmStrSize" ->
            LoadValue(TYPE_INT64, W(I.strlen + 1), info, regno)
      [] arg.kind = "asmStrLen" -> LoadValue(TYPE_INT64, W(I.strlen), info, regno)
      [] arg.kind = "bytes" -> LoadLabel(TYPE_CONST_INT8_PTR, "bytes", info, regno)
      [] arg.kind = "bytesSize" -> LoadValue(TYPE_INT64, W(I.size), info, regno)
      [] arg.kind = "target" ->
            TR(TYPE_CONST_VOID_PTR, sendLoadTargetMetadata(I, info, regno, ub))
      [] arg.kind = "trampoline" ->
            LoadLabel(TYPE_CONST_VOID_PTR, "trampoline", info, regno)
      [] arg.kind = "random" -> LoadValue(TYPE_INT64, ext.v, info, regno)
      [] arg.kind = "register" ->
            IF arg.ptr THEN LoadRegisterByRef(arg, info, regno)
            ELSE LoadRegisterByValue(action, arg, I, info, regno)
      [] arg.kind = "state" ->
            TR(TYPE_VOID_PTR,
               Warn0(sendLeaFromStackToR64(getOffset(info, "eflags"), regno), info))
      [] arg.kind = "symbol" -> LoadSymbol(ext, info, regno)
      [] arg.kind = "memop" -> LoadMemOp(arg, I, info, regno, ub)
      [] arg.kind \in OperandKinds -> LoadOperand(action, arg, I, info, regno, ub)
      [] OTHER -> TR(TYPE_INT64, MemResult(FALSE, <<>>, info, <<>>, TRUE))

\* sendLoadArgumentMetadata without the call of info.use.
sendLoadArgumentMetadata_NoUse(info, action, arg, I, id, argno, ext, ub) ==
    LET regno == getArgRegIdx(argno)
        Finish(sv, k) ==
            IF k.r.fatal
            THEN ArgResult(TRUE, k.t, sv.toks \o k.r.toks, k.r.info, k.r.warn)
            ELSE ArgResult(FALSE, k.t, sv.toks \o k.r.toks,
                           clobber(k.r.info, getReg(regno)),
                           k.r.warn)
        Load(sv) ==
            Finish(sv, LoadKind(action, arg, I, id, sv.info, regno, ext, ub))
    IN  IF regno < 0 THEN ArgResult(TRUE, TYPE_INT64, <<>>, info, <<>>)
        ELSE Load(sendSaveRegToStack(info, getReg(regno)))

sendLoadArgumentMetadata(info, action, arg, I, id, argno, ext, ub) ==
    LET regno == getArgRegIdx(argno)
        Finish(sv, k) ==
            IF k.r.fatal
            THEN ArgResult(TRUE, k.t, sv.toks \o k.r.toks, k.r.info, k.r.warn)
            ELSE ArgResult(FALSE, k.t, sv.toks \o k.r.toks,
                           use(clobber(k.r.info, getReg(regno)), getReg(regno)),
                           k.r.warn)
        Load(sv) ==
            Finish(sv, LoadKind(action, arg, I, id, sv.info, regno, ext, ub))
    IN  IF regno < 0 THEN ArgResult(TRUE, TYPE_INT64, <<>>, info, <<>>)
        ELSE Load(sendSaveRegToStack(info, getReg(regno)))

(***************************************************************************)
(* Trailing data, the output stream and the metadata array.                *)
(***************************************************************************)
\* One character of the output.  Characters are named: a letter stands for
\* itself, the others are "quote", "backslash", "newline", "tab", "return",
\* "backspace", "formfeed" and "vtab" (a control character that
\* sendStringCharData has no case for).
Char(c) == Tok("char_" \o c, 0, 0, Zero)

\* sendStringCharData without the case for the double quote.
sendStringCharData_RawQuote(c) ==
    CASE c = "backslash" -> <<Char("backslash"), Char("backslash")>>
      [] c = "newline" -> <<Char("backslash"), Char("n")>>
      [] c = "tab" -> <<Char("backslash"), Char("t")>>
      [] c = "return" -> <<Char("backslash"), Char("r")>>
      [] c = "backspace" -> <<Char("backslash"), Char("b")>>
      [] c = "formfeed" -> <<Char("backslash"), Char("f")>>
      [] OTHER -> <<Char(c)>>

sendStringCharData(c) ==
    CASE c = "backslash" -> <<Char("backslash"), Char("backslash")>>
      [] c = "quote" -> <<Char("backslash"), Char("quote")>>
      [] c = "newline" -> <<Char("backslash"), Char("n")>>
      [] c = "tab" -> <<Char("backslash"), Char("t")>>
      [] c = "return" -> <<Char("backslash"), Char("r")>>
      [] c = "backspace" -> <<Char("backslash"), Char("b")>>
      [] c = "formfeed" -> <<Char("backslash"), Char("f")>>
      [] OTHER -> <<Char(c)>>

RECURSIVE SendChars(_, _)
SendChars(string, i) ==
    IF i > Len(string) THEN <<>>
    ELSE sendStringCharData(string[i]) \o SendChars(string, i + 1)

sendAsmStrData(I, newline) ==
    <<Char("quote")>> \o SendChars(I.string, 1) \o
    (IF newline THEN sendStringCharData("newline") ELSE <<>>) \o
    <<Char("quote")>>

sendIntegerData(size, i) == <<Tok("int32", 0, 0, i)>>

sendOperandDataMetadata(I, op, argno) ==
    IF op # NullOp /\ op.type = "imm"
    THEN <<Label("immediate", argno),
           Tok(IF op.size = 1 THEN "int8"
               ELSE IF op.size = 2 THEN "int16"
               ELSE IF op.size = 4 THEN "int32"
               ELSE "int64", 0, 0, op.imm)>>
    ELSE <<>>

sendArgumentDataMetadata(arg, I, argno) ==
    IF arg.kind = "asmStr"
    THEN (IF arg.duplicate THEN <<>>
          ELSE <<Label("asmStr", 0)>> \o sendAsmStrData(I, FALSE))
    ELSE IF arg.kind = "bytes"
    THEN (IF arg.duplicate THEN <<>>
          ELSE <<Label("bytes", 0), Tok("bytes", I.size, 0, Zero)>>)
    ELSE IF arg.kind \in OperandKinds /\ arg.ptr
    THEN sendOperandDataMetadata(
             I, getOperand(I, arg.idx, KindOpType(arg.kind), KindAccess(arg.kind)),
             getArgRegIdx(argno))
    ELSE <<>>

\* The stream opened on buf by fmemopen: what the buffer holds and the
\* stream's error indicator.  A write that does not fit stores what fits and
\* sets the indicator.
Stream(data, err) == [data |-> data, err |-> err]

Write(st, toks, cap) ==
    LET room == cap - Len(st.data)
    IN  IF Len(toks) <= room THEN Stream(st.data \o toks, st.err)
        ELSE Stream(st.data \o SubSeq(toks, 1, room), TRUE)

NUL == Tok("NUL", 0, 0, Zero)

Entry(name, data) == [name |-> name, data |-> data, null |-> FALSE]
NullEntry == [name |-> "", data |-> 0, null |-> TRUE]

CallEntries == <<"loadArgs", "function", "restoreState", "restoreRSP", "data">>

\* The tokens of the entry that starts at buffer position p (0-based): up to
\* the next NUL.
RECURSIVE EntryEnd(_, _)
EntryEnd(data, i) ==
    IF i > Len(data) \/ data[i] = NUL THEN i ELSE EntryEnd(data, i + 1)

EntryToks(data, p) == SubSeq(data, p + 1, EntryEnd(data, p + 1) - 1)

\* lea imm32(%rsp),%rsp
LeaRSP(offset) == <<Tok("lea_rsp", RSP_IDX, offset, Zero)>>

\* The loop of lines 1428-1437: the stack arguments, last argument first.
\* The loop of lines 1428-1437 run over the arguments first to last.
RECURSIVE SendStackArgs_LeftToRight(_, _)
SendStackArgs_LeftToRight(info, argno) ==
    IF argno < 0 THEN <<>>
    ELSE SendStackArgs_LeftToRight(info, argno - 1) \o
         (IF getArgRegIdx(argno) # argno
          THEN sendPush(info.rsp_offset, info.before, getReg(getArgRegIdx(argno)),
                        REGISTER_INVALID).toks
          ELSE <<>>)

RECURSIVE SendStackArgs(_, _)
SendStackArgs(info, argno) ==
    IF argno < 0 THEN <<>>
    ELSE (IF getArgRegIdx(argno) # argno
          THEN sendPush(info.rsp_offset, info.before, getReg(getArgRegIdx(argno)),
                        REGISTER_INVALID).toks
          ELSE <<>>) \o SendStackArgs(info, argno - 1)

\* The count of lines 1428-1437 taken over every argument.
RECURSIVE CountStackArgs_EveryArg(_)
CountStackArgs_EveryArg(argno) ==
    IF argno < 0 THEN 0 ELSE 8 + CountStackArgs_EveryArg(argno - 1)

RECURSIVE CountStackArgs(_)
CountStackArgs(argno) ==
    IF argno < 0 THEN 0
    ELSE (IF getArgRegIdx(argno) # argno THEN 8 ELSE 0) + CountStackArgs(argno - 1)

\* The loop of lines 1438-1449 with the test on action->clean the other way
\* round.
RECURSIVE RestoreCalleeSave_WhenClean(_, _, _, _)
RestoreCalleeSave_WhenClean(clean, info, rsp_args_offset, regno) ==
    LET reg == getReg(regno)
        Reload(rest) ==
            [toks |-> sendMovFromStackToR64(rsp_args_offset + getOffset(info, reg),
                                            regno) \o rest.toks,
             info |-> rest.info]
    IN  IF ~clean \/ regno >= RMAX_IDX THEN [toks |-> <<>>, info |-> info]
        ELSE IF ~isCallerSave(info, reg) /\ isClobbered(info, reg)
        THEN Reload(RestoreCalleeSave_WhenClean(clean, restore(info, reg),
                                                rsp_args_offset, regno + 1))
        ELSE RestoreCalleeSave_WhenClean(clean, info, rsp_args_offset, regno + 1)

\* The loop of lines 1438-1449: reload the clobbered registers that are not
\* caller-save.
RECURSIVE RestoreCalleeSave(_, _, _, _)
RestoreCalleeSave(clean, info, rsp_args_offset, regno) ==
    LET reg == getReg(regno)
        Reload(rest) ==
            [toks |-> sendMovFromStackToR64(rsp_args_offset + getOffset(info, reg),
                                            regno) \o rest.toks,
             info |-> rest.info]
    IN  IF clean \/ regno >= RMAX_IDX THEN [toks |-> <<>>, info |-> info]
        ELSE IF ~isCallerSave(info, reg) /\ isClobbered(info, reg)
        THEN Reload(RestoreCalleeSave(clean, restore(info, reg), rsp_args_offset,
                                      regno + 1))
        ELSE RestoreCalleeSave(clean, info, rsp_args_offset, regno + 1)

\* The loop of lines 1481-1498 taking the registers in the order they were
\* pushed.
RECURSIVE PopAll_OldestFirst(_)
PopAll_OldestFirst(info) ==
    IF info.pushed = <<>> THEN [toks |-> <<>>, info |-> info, pop_rsp |-> FALSE]
    ELSE IF info.pushed[1] = "rsp"
    THEN [PopAll_OldestFirst([info EXCEPT !.pushed = Tail(@)])
          EXCEPT !.pop_rsp = TRUE]
    ELSE [PopAll_OldestFirst([info EXCEPT !.pushed = Tail(@)])
          EXCEPT !.toks = sendPop(FALSE, info.pushed[1], REGISTER_INVALID).toks \o @]

\* The loop of lines 1481-1498: pop every saved register but %rsp, most
\* recently pushed first.
RECURSIVE PopAll(_)
PopAll(info) ==
    LET Pop(reg, popped, preserve_rax, rscratch, sp) ==
            [PopAll(IF sp.clobbers THEN clobber(popped, rscratch) ELSE popped)
             EXCEPT !.toks = sp.toks \o @]
        Scratch(reg, popped, preserve_rax, rscratch) ==
            Pop(reg, popped, preserve_rax, rscratch,
                sendPop(preserve_rax, reg, rscratch))
        Next1(reg, popped) ==
            IF reg = REGISTER_INVALID
            THEN [toks |-> <<>>, info |-> info, pop_rsp |-> FALSE]
            ELSE IF reg = "rsp"
            THEN [PopAll(popped) EXCEPT !.pop_rsp = TRUE]
            ELSE Scratch(reg, popped, isUsed(popped, "rax"),
                         IF isUsed(popped, "rax") THEN getScratch(popped, <<>>)
                         ELSE REGISTER_INVALID)
    IN  Next1(popReg(info), popInfo(info))

(***************************************************************************)
(* Inputs of a build: instructions, argument specifications, actions.      *)
(***************************************************************************)
\* string is the textual rendering (I->string.instr), a sequence of
\* characters; strlen is its strlen().
Instr(mnemonic, address, size, string, op) ==
    [mnemonic |-> mnemonic, address |-> address, size |-> size,
     offset |-> address, string |-> string, strlen |-> Len(string), op |-> op]

RegOp(reg, access) == OpInfo("reg", getRegSize(reg), access, reg, Zero, NoMem)
MemOpnd(size, access, mem) == OpInfo("mem", size, access, REGISTER_NONE, Zero, mem)
ImmOp(size, imm) == OpInfo("imm", size, ACCESS_READ, REGISTER_NONE, imm, NoMem)

\* mov (%rax,%rbx,4),%ecx
I_mov == Instr("mov", W(4096), 3, <<"m", "o", "v">>,
               <<RegOp("ecx", ACCESS_WRITE),
                 MemOpnd(4, ACCESS_READ, Mem(REGISTER_NONE, Zero, "rax", "rbx", 4))>>)
\* lea 8(%rdi),%rax
I_lea == Instr("lea", W(4096), 4, <<"l", "e", "a">>,
               <<RegOp("rax", ACCESS_WRITE),
                 MemOpnd(8, 0, Mem(REGISTER_NONE, W(8), "rdi", REGISTER_NONE, 1))>>)
\* movaps (%rsp),%xmm0
I_movaps == Instr("movaps", W(4096), 4, <<"m", "o", "v", "a", "p", "s">>,
                  <<RegOp("xmm0", ACCESS_WRITE),
                    MemOpnd(16, ACCESS_READ,
                            Mem(REGISTER_NONE, Zero, "rsp", REGISTER_NONE, 1))>>)
\* prefetcht0 (%rsi)
I_prefetch == Instr("prefetcht0", W(4096), 3, <<"p", "r", "e", "f", "e", "t", "c", "h", "t", "0">>,
                    <<MemOpnd(1, 0, Mem(REGISTER_NONE, Zero, "rsi", REGISTER_NONE, 1))>>)
\* add $1,(%rdi)
I_add == Instr("add", W(4096), 4, <<"a", "d", "d">>,
               <<MemOpnd(8, ACCESS_ANY, Mem(REGISTER_NONE, Zero, "rdi", REGISTER_NONE, 1)),
                 ImmOp(1, W(1))>>)
\* jne .+0x12
I_jne == Instr("jne", W(4096), 2, <<"j", "n", "e">>, <<ImmOp(4, W(16))>>)
\* jmp *0x100(%rip)
I_jmp == Instr("jmp", W(4096), 6, <<"j", "m", "p">>,
               <<MemOpnd(8, ACCESS_READ, Mem(REGISTER_NONE, W(256), "rip", REGISTER_NONE, 1))>>)
\* jrcxz .+7
I_jrcxz == Instr("jrcxz", W(4096), 2, <<"j", "r", "c", "x", "z">>, <<ImmOp(4, W(5))>>)
\* ret
I_ret == Instr("ret", W(4096), 1, <<"r", "e", "t">>, <<>>)
\* mov 0x7ffffff0(%rsp),%rdx
I_movrsp == Instr("mov", W(4096), 8, <<"m", "o", "v">>,
                  <<RegOp("rdx", ACCESS_WRITE),
                    MemOpnd(8, ACCESS_READ,
                            Mem(REGISTER_NONE, WAdd(INT32_MAX, W(-15)), "rsp",
                                REGISTER_NONE, 1))>>)

\* ljmp *(%rax): a far jump through a 10-byte memory operand
I_ljmp == Instr("jmp", W(4096), 3, <<"j", "m", "p">>,
                <<MemOpnd(10, ACCESS_READ, Mem(REGISTER_NONE, Zero, "rax", REGISTER_NONE, 1))>>)

Instrs ==
    {I_mov, I_lea, I_movaps, I_prefetch, I_add, I_jne, I_jmp, I_jrcxz, I_ret,
     I_movrsp, I_ljmp}

Simple(kind) == Arg(kind, FALSE, Zero, REGISTER_NONE, 0, "none", NoMemOp)
IntArg(v) == Arg("integer", FALSE, v, REGISTER_NONE, 0, "none", NoMemOp)
RegArg(reg, ptr) == Arg("register", ptr, Zero, reg, 0, "none", NoMemOp)
OpArg(kind, idx, ptr, field) == Arg(kind, ptr, Zero, REGISTER_NONE, idx, field, NoMemOp)
MemArg(ptr, memop) == Arg("memop", ptr, Zero, REGISTER_NONE, 0, "none", memop)

\* Arguments whose code does not depend on the instruction's operands.
PlainArgs ==
    {IntArg(W(5)), IntArg(<<4, 0>>),
     RegArg("rbx", TRUE), RegArg("rsp", TRUE), RegArg("eflags", FALSE),
     RegArg("rip", FALSE), RegArg("rax", FALSE), RegArg("ah", FALSE),
     RegArg("esp", FALSE), RegArg("xmm0", FALSE), RegArg("xmm0", TRUE),
     MemArg(FALSE, MemOp(8, REGISTER_NONE, W(8), "rdi", REGISTER_NONE, 1)),
     MemArg(TRUE, MemOp(8, "fs", Zero, "rax", REGISTER_NONE, 1)),
     MemArg(FALSE, MemOp(16, REGISTER_NONE, W(64), "rsp", "rsi", 2))} \cup
    {Simple(k) : k \in {"user", "offset", "addr", "id", "base", "staticAddr",
                        "asmStr", "asmStrSize", "asmStrLen", "bytes",
                        "bytesSize", "trampoline", "random", "state", "symbol",
                        "unknown"}}

\* Arguments that refer to the instruction's operands or control flow.
MaxOpIdx == 2

OperandArgs ==
    {OpArg(k, i, p, "none") : k \in OperandKinds, i \in 0..MaxOpIdx, p \in BOOLEAN}
    \cup {OpArg("op", 0, p, f) : p \in BOOLEAN, f \in Fields \ {"none"}}
    \cup {OpArg("mem", 0, FALSE, f) : f \in {"base", "displ"}}
    \cup {Simple("next"), Simple("target")}

\* args followed by integer arguments up to n arguments.
Pad(args, n) ==
    [i \in 1..n |-> IF i <= Len(args) THEN args[i] ELSE IntArg(W(i))]

MAX_ARGNO == 8

\* How far past the supported number of arguments the lists go.
MaxExtraArgs == 1

PairFirst == {IntArg(W(5)), RegArg("rbx", TRUE), RegArg("rsp", TRUE)}

PairSecond ==
    {RegArg("eflags", FALSE),
     MemArg(FALSE, MemOp(8, REGISTER_NONE, W(8), "rdi", REGISTER_NONE, 1)),
     MemArg(FALSE, MemOp(8, REGISTER_NONE, Zero, "rdi", "rbx", 1)),
     OpArg("mem", 0, FALSE, "none"), OpArg("op", MaxOpIdx, FALSE, "none")}

Scenario(instr, args) == [I |-> instr, args |-> args]

Scenarios ==
    {Scenario(I_mov, <<>>)}
    \cup {Scenario(I_mov, <<a>>) : a \in PlainArgs}
    \cup {Scenario(i, <<a>>) : i \in Instrs, a \in OperandArgs}
    \cup {Scenario(i, <<a, b>>) : i \in {I_mov, I_add}, a \in PairFirst, b \in PairSecond}
    \cup {Scenario(I_add, Pad(<<a, b>>, n)) :
            a \in {IntArg(W(5)), OpArg("op", MaxOpIdx, FALSE, "none")},
            b \in {IntArg(W(5)), RegArg("rbx", TRUE)},
            n \in 6..(MAX_ARGNO + MaxExtraArgs)}
    \cup {Scenario(I_add, Append(Pad(<<a>>, MAX_ARGNO - 1), m)) :
            a \in {IntArg(W(5)), RegArg("rbx", TRUE)},
            m \in {MemArg(FALSE, MemOp(8, REGISTER_NONE, Zero, "rax", "rdi", 1)),
                   MemArg(FALSE, MemOp(8, REGISTER_NONE, Zero, "rdi", "rsi", 1))}}

CallKinds == {"before", "after", "conditional", "conditional_jump"}

Action(kind, timing, clean, args) ==
    [kind |-> kind, call |-> timing, clean |-> clean, args |-> args]

\* Capacities of the caller's buffer, in tokens.
TinyBuf == 1
SmallBuf == 6
LargeBuf == 200
BufSizes == {TinyBuf, SmallBuf, LargeBuf}

ID == W(7)

\* The answers the external services may give for an argument.
\* rand(): the value returned in a given state of the generator, and the
\* state it leaves.
MaxSeed == 1

rand(s) == [v |-> W(3 + 8 * s), next |-> s + 1]

HasRandom(args) == \E i \in 1..Len(args) : args[i].kind = "random"

ExtChoices(arg) ==
    IF arg.kind = "user" THEN {Ext(TRUE, "addr", W(9)), Ext(FALSE, "addr", Zero)}
    ELSE IF arg.kind = "symbol"
    THEN {Ext(TRUE, "undefined", Zero), Ext(TRUE, "dynamic", W(512)),
          Ext(TRUE, "dynamic", <<4, 0>>), Ext(TRUE, "addr", W(1024)),
          Ext(TRUE, "addr", <<4, 0>>)}
    ELSE {Ext(TRUE, "addr", Zero)}

\* The addresses lookupSymbol may return: found (the lowest, a usual one, the
\* highest a rel32 reaches), not found (-1), too far (INT32_MAX + 1).
SymbolAddrs == {Zero, W(8192), INT32_MAX, W(-1), WAdd(INT32_MAX, W(1))}

(***************************************************************************)
(* buildMetadata as a state machine.                                       *)
(*   action, I, size   the inputs of the build                             *)
(*   pc                where the build is: "start", "args", "function",    *)
(*                     "restoreState", "restoreRSP", "data", and the ends  *)
(*                     "done" (metadata returned), "null" (nullptr         *)
(*                     returned) and "fatal" (error() ended the process)   *)
(*   info              the CallInfo                                        *)
(*   st, pos           the output stream and the start of the open entry   *)
(*   metadata          the entries written so far                          *)
(*   argno, sig        the argument loop's counter and the type signature  *)
(*   warns             the warnings printed, with the argument they are for*)
(*   mark              the stream position at which the argument loop ended*)
(*   rsp_args_offset, pop_rsp, addr   buildMetadata's locals of the same   *)
(*                     name (addr is what lookupSymbol returned)           *)
(*   seed              the state of the C library's rand(), which outlives  *)
(*                     a build                                             *)
(*   unit              the state of a run of one helper on its own (the     *)
(*                     specifications SpecValue, SpecTemp and SpecMemOp);   *)
(*                     a build leaves it alone                              *)
(***************************************************************************)
VARIABLES action, I, size, pc, info, st, pos, metadata, argno, sig, warns,
          mark, rsp_args_offset, pop_rsp, addr, seed, unit

vars == <<action, I, size, pc, info, st, pos, metadata, argno, sig, warns,
          mark, rsp_args_offset, pop_rsp, addr, seed, unit>>

build == <<action, I, size, pc, info, st, pos, metadata, argno, sig, warns,
           mark, rsp_args_offset, pop_rsp, addr, seed>>

\* What no step of a build changes.
inputs == <<action, I, size, unit>>

NoUnit == [phase |-> "none"]

IsState(args) == \E i \in 1..Len(args) : args[i].kind = "state"
IsBefore(a) == a.call # "after"
IsConditional(a) == a.call \in {"conditional", "conditional_jump"}

InitBuild ==
    /\ pc = "start"
    /\ info = CallInfo(FALSE, FALSE, FALSE, 0, TRUE)
    /\ st = Stream(<<>>, FALSE)
    /\ pos = 0
    /\ metadata = <<>>
    /\ argno = 0
    /\ sig = <<>>
    /\ warns = <<>>
    /\ mark = 0
    /\ rsp_args_offset = 0
    /\ pop_rsp = FALSE
    /\ addr = Zero

Init ==
    /\ \E sc \in Scenarios :
          /\ I = sc.I
          /\ \/ \E c \in CallKinds, clean \in BOOLEAN :
                   action = Action("call", c, clean, sc.args)
             \/ /\ sc.args = <<>>
                /\ \E k \in {"null", "exit", "passthru", "plugin", "trap", "print"} :
                      action = Action(k, "before", FALSE, <<>>)
    /\ size \in BufSizes
    /\ InitBuild
    /\ seed \in (IF HasRandom(action.args) THEN 0..MaxSeed ELSE {0})
    /\ unit = NoUnit

\* buildMetadataString without the test of the stream's error indicator.
buildMetadataString_NoCheck(stream, p, cap) ==
    LET Closed(s1) ==
            [fatal |-> FALSE, st |-> s1, str |-> p, pos |-> Len(s1.data)]
    IN  Closed(Write(stream, <<NUL>>, cap))

\* buildMetadataString: terminate the open entry; its start, the new
\* position, and whether the stream's error indicator ends the process.
buildMetadataString(stream, p, cap) ==
    LET Closed(s1) ==
            [fatal |-> s1.err, st |-> s1, str |-> p, pos |-> Len(s1.data)]
    IN  Closed(Write(stream, <<NUL>>, cap))

Fatal ==
    /\ pc' = "fatal"
    /\ UNCHANGED <<info, metadata, argno, sig, warns, mark, rsp_args_offset, pop_rsp>>

\* Lines 1363-1372: no action, or an action without metadata.
BuildNothing ==
    /\ pc = "start"
    /\ action.kind \in {"null", "exit", "passthru", "plugin", "trap"}
    /\ pc' = "null"
    /\ UNCHANGED <<inputs, info, st, pos, metadata, argno, sig, warns, mark,
                   rsp_args_offset, pop_rsp, addr, seed>>

\* Lines 1374-1377: fmemopen fails.
BuildOpenFails ==
    /\ pc = "start"
    /\ action.kind \in {"print", "call"}
    /\ UNCHANGED <<inputs, st, pos, addr, seed>>
    /\ Fatal

\* Lines 1383-1399: case ACTION_PRINT.
BuildPrint ==
    /\ pc = "start"
    /\ action.kind = "print"
    /\ LET Second(e1, e2) ==
               IF e2.fatal
               THEN st' = e2.st /\ pos' = e1.pos /\ Fatal
               ELSE /\ st' = e2.st
                    /\ pos' = e2.pos
                    /\ metadata' = <<Entry("asmStr", e1.str),
                                     Entry("asmStrLen", e2.str), NullEntry>>
                    /\ pc' = "done"
                    /\ UNCHANGED <<info, argno, sig, warns, mark, rsp_args_offset,
                                   pop_rsp>>
           First(e1) ==
               IF e1.fatal
               THEN st' = e1.st /\ UNCHANGED pos /\ Fatal
               ELSE Second(e1,
                        buildMetadataString(
                            Write(e1.st, sendIntegerData(32, W(I.strlen + 1)), size),
                            e1.pos, size))
       IN  First(buildMetadataString(
                     Write(st, sendAsmStrData(I, TRUE), size),
                     pos, size))
    /\ UNCHANGED <<inputs, addr, seed>>

\* Lines 1400-1418: case ACTION_CALL up to the argument loop.
BuildCall ==
    /\ pc = "start"
    /\ action.kind = "call"
    /\ info' = CallInfo(action.clean, IsState(action.args), IsConditional(action),
                        Len(action.args), IsBefore(action))
    /\ pc' = "args"
    /\ UNCHANGED <<inputs, st, pos, metadata, argno, sig, warns, mark,
                   rsp_args_offset, pop_rsp, addr, seed>>

\* Lines 1419-1425: one iteration of the argument loop.
LoadArgument ==
    /\ pc = "args"
    /\ argno < Len(action.args)
    /\ LET Loaded(r) ==
               /\ st' = Write(st, r.toks, size)
               /\ info' = r.info
               /\ warns' = warns \o [i \in 1..Len(r.warn) |->
                                        [argno |-> argno, code |-> r.warn[i]]]
               /\ IF r.fatal
                  THEN /\ pc' = "fatal"
                       /\ UNCHANGED <<sig, argno>>
                  ELSE /\ pc' = "args"
                       /\ sig' = Append(sig, r.t)
                       /\ argno' = argno + 1
           Answers(arg) ==
               IF arg.kind = "random" THEN {Ext(TRUE, "addr", rand(seed).v)}
               ELSE ExtChoices(arg)
       IN  \E ext \in Answers(action.args[argno + 1]), ub \in UBOutcomes :
               Loaded(sendLoadArgumentMetadata(info, action, action.args[argno + 1],
                                               I, ID, argno, ext, ub))
    /\ seed' = IF action.args[argno + 1].kind = "random" THEN rand(seed).next
               ELSE seed
    /\ UNCHANGED <<inputs, pos, metadata, mark, rsp_args_offset, pop_rsp, addr>>

\* Lines 1426-1454: the stack arguments, the callee-save registers, and the
\* loadArgs entry.
FinishLoadArgs ==
    /\ pc = "args"
    /\ argno = Len(action.args)
    /\ LET n == Len(action.args)
           Closed(e) ==
               /\ st' = e.st
               /\ IF e.fatal
                  THEN pc' = "fatal" /\ UNCHANGED <<pos, metadata>>
                  ELSE /\ pc' = "function"
                       /\ pos' = e.pos
                       /\ metadata' = Append(metadata, Entry("loadArgs", e.str))
           Restored(rc) ==
               /\ info' = rc.info
               /\ Closed(buildMetadataString(
                             Write(st, SendStackArgs(info, n - 1) \o rc.toks, size),
                             pos, size))
       IN  /\ Restored(RestoreCalleeSave(action.clean, info,
                                         CountStackArgs(n - 1), 0))
           /\ mark' = Len(st.data)
           /\ rsp_args_offset' = CountStackArgs(n - 1)
    /\ UNCHANGED <<inputs, argno, sig, warns, pop_rsp, addr, seed>>

\* Lines 1456-1472 with the range test of line 1458 reduced to "addr < 0".
FindFunction_NoUpperBound ==
    /\ pc = "function"
    /\ LET Closed(e) ==
               /\ st' = e.st
               /\ IF e.fatal
                  THEN pc' = "fatal" /\ UNCHANGED <<info, pos, metadata>>
                  ELSE /\ pc' = "restoreState"
                       /\ pos' = e.pos
                       /\ metadata' = Append(metadata, Entry("function", e.str))
                       /\ info' = call(info, IsConditional(action))
       IN  \E a \in SymbolAddrs :
               /\ addr' = a
               /\ IF WLt(a, Zero)
                  THEN /\ pc' = "fatal"
                       /\ UNCHANGED <<info, st, pos, metadata>>
                  ELSE Closed(buildMetadataString(
                                  Write(st, <<Tok("rel32", 0, 0, ToInt32(a))>>, size),
                                  pos, size))
    /\ UNCHANGED <<inputs, argno, sig, warns, mark, rsp_args_offset, pop_rsp, seed>>

\* Lines 1456-1472: the callee's address and the function entry.
FindFunction ==
    /\ pc = "function"
    /\ LET Closed(e) ==
               /\ st' = e.st
               /\ IF e.fatal
                  THEN pc' = "fatal" /\ UNCHANGED <<info, pos, metadata>>
                  ELSE /\ pc' = "restoreState"
                       /\ pos' = e.pos
                       /\ metadata' = Append(metadata, Entry("function", e.str))
                       /\ info' = call(info, IsConditional(action))
       IN  \E a \in SymbolAddrs :
               /\ addr' = a
               /\ IF WLt(a, Zero) \/ WLt(INT32_MAX, a)
                  THEN /\ pc' = "fatal"
                       /\ UNCHANGED <<info, st, pos, metadata>>
                  ELSE Closed(buildMetadataString(
                                  Write(st, <<Tok("rel32", 0, 0, ToInt32(a))>>, size),
                                  pos, size))
    /\ UNCHANGED <<inputs, argno, sig, warns, mark, rsp_args_offset, pop_rsp, seed>>

\* Lines 1474-1502: release the stack arguments, pop the saved registers.
RestoreState ==
    /\ pc = "restoreState"
    /\ LET Closed(e) ==
               /\ st' = e.st
               /\ IF e.fatal
                  THEN pc' = "fatal" /\ UNCHANGED <<pos, metadata>>
                  ELSE /\ pc' = "restoreRSP"
                       /\ pos' = e.pos
                       /\ metadata' = Append(metadata, Entry("restoreState", e.str))
           Popped(p) ==
               /\ info' = p.info
               /\ pop_rsp' = p.pop_rsp
               /\ Closed(buildMetadataString(
                             Write(st, (IF rsp_args_offset # 0
                                        THEN LeaRSP(rsp_args_offset) ELSE <<>>) \o
                                       p.toks, size),
                             pos, size))
       IN  Popped(PopAll(info))
    /\ UNCHANGED <<inputs, argno, sig, warns, mark, rsp_args_offset, addr, seed>>

\* Lines 1504-1516 without the test on pop_rsp.
RestoreRSP_AlwaysLea ==
    /\ pc = "restoreRSP"
    /\ LET Closed(e) ==
               /\ st' = e.st
               /\ IF e.fatal
                  THEN pc' = "fatal" /\ UNCHANGED <<pos, metadata>>
                  ELSE /\ pc' = "data"
                       /\ pos' = e.pos
                       /\ metadata' = Append(metadata, Entry("restoreRSP", e.str))
       IN  Closed(buildMetadataString(Write(st, LeaRSP(REDZONE), size), pos, size))
    /\ UNCHANGED <<inputs, info, argno, sig, warns, mark, rsp_args_offset, pop_rsp,
                   addr, seed>>

\* Lines 1504-1516: restore %rsp.
RestoreRSP ==
    /\ pc = "restoreRSP"
    /\ LET Closed(e) ==
               /\ st' = e.st
               /\ IF e.fatal
                  THEN pc' = "fatal" /\ UNCHANGED <<pos, metadata>>
                  ELSE /\ pc' = "data"
                       /\ pos' = e.pos
                       /\ metadata' = Append(metadata, Entry("restoreRSP", e.str))
       IN  Closed(buildMetadataString(
                      Write(st, IF pop_rsp
                                THEN sendPop(FALSE, "rsp", REGISTER_INVALID).toks
                                ELSE LeaRSP(REDZONE), size),
                      pos, size))
    /\ UNCHANGED <<inputs, info, argno, sig, warns, mark, rsp_args_offset, pop_rsp,
                   addr, seed>>

RECURSIVE SendData(_, _, _)
SendData(args, instr, i) ==
    IF i > Len(args) THEN <<>>
    ELSE sendArgumentDataMetadata(args[i], instr, i - 1) \o SendData(args, instr, i + 1)

\* Lines 1518-1532 without the data entry.
PlaceData_NoEntry ==
    /\ pc = "data"
    /\ LET Closed(e) ==
               /\ st' = e.st
               /\ IF e.fatal
                  THEN pc' = "fatal" /\ UNCHANGED <<pos, metadata>>
                  ELSE /\ pc' = "done"
                       /\ pos' = e.pos
                       /\ metadata' = Append(metadata, NullEntry)
       IN  Closed(buildMetadataString(Write(st, SendData(action.args, I, 1), size),
                                      pos, size))
    /\ UNCHANGED <<inputs, info, argno, sig, warns, mark, rsp_args_offset, pop_rsp,
                   addr, seed>>

\* Lines 1518-1532: the trailing data and the terminating entry.
PlaceData ==
    /\ pc = "data"
    /\ LET Closed(e) ==
               /\ st' = e.st
               /\ IF e.fatal
                  THEN pc' = "fatal" /\ UNCHANGED <<pos, metadata>>
                  ELSE /\ pc' = "done"
                       /\ pos' = e.pos
                       /\ metadata' = metadata \o <<Entry("data", e.str), NullEntry>>
       IN  Closed(buildMetadataString(Write(st, SendData(action.args, I, 1), size),
                                      pos, size))
    /\ UNCHANGED <<inputs, info, argno, sig, warns, mark, rsp_args_offset, pop_rsp,
                   addr, seed>>

Next ==
    \/ BuildNothing
    \/ BuildOpenFails
    \/ BuildPrint
    \/ BuildCall
    \/ LoadArgument
    \/ FinishLoadArgs
    \/ FindFunction
    \/ RestoreState
    \/ RestoreRSP
    \/ PlaceData

Spec == Init /\ [][Next]_vars

(***************************************************************************)
(* Properties of a build.                                                  *)
(***************************************************************************)
IsCall == action.kind = "call"

\* The number of entries a call build has written when it is at p.
EntryCount(p) ==
    CASE p \in {"start", "args"} -> 0
      [] p = "function" -> 1
      [] p = "restoreState" -> 2
      [] p = "restoreRSP" -> 3
      [] p = "data" -> 4
      [] OTHER -> 6

Stages == {"start", "args", "function", "restoreState", "restoreRSP", "data", "done"}

\* The tokens of the n-th entry.
EntryN(n) == EntryToks(st.data, metadata[n].data)

Pushes(toks) == LET IsPush(t) == t.op = "push" IN SelectSeq(toks, IsPush)
Pops(toks) == LET IsPop(t) == t.op = "pop" IN SelectSeq(toks, IsPop)
RegIdxs(toks) == [i \in 1..Len(toks) |-> toks[i].r]
Reverse(s) == [i \in 1..Len(s) |-> s[Len(s) + 1 - i]]

\* The registers on the stack when the call is made, oldest first: those the
\* trampoline pushed on entry, then those pushed while the arguments were
\* loaded (the push tokens of the argument loop).
PushOrder ==
    LET entry == CallInfo(action.clean, IsState(action.args), IsConditional(action),
                          Len(action.args), IsBefore(action)).pushed
    IN  [i \in 1..Len(entry) |-> getRegIdx(entry[i])] \o
        RegIdxs(Pushes(SubSeq(st.data, 1, mark)))

\* C1: a call build that returns leaves exactly the five entries loadArgs,
\* function, restoreState, restoreRSP, data, each with a data pointer of its
\* own, followed by the null entry; the entries are written one phase after
\* the other, none skipped, none repeated.
C1_FiveEntries ==
    IsCall =>
        /\ pc \in Stages => Len(metadata) = EntryCount(pc)
        /\ pc = "fatal" => Len(metadata) < Len(CallEntries)
        /\ \A i \in 1..Len(metadata) :
              IF i <= Len(CallEntries)
              THEN /\ metadata[i].name = CallEntries[i]
                   /\ ~metadata[i].null
                   /\ metadata[i].data < Len(st.data)
                   /\ \A j \in 1..(i - 1) : metadata[j].data < metadata[i].data
              ELSE metadata[i] = NullEntry

C1_Returned == IsCall /\ pc = "done" /\ Len(action.args) = MAX_ARGNO

\* C2: the restoreState stream pops every register on the stack other than
\* %rsp exactly once, most recently pushed first, and pops nothing else.
C2_PopsMirrorPushes ==
    (IsCall /\ pc \in {"restoreRSP", "data", "done"}) =>
        LET NotRSP(r) == r # RSP_IDX
        IN  RegIdxs(Pops(EntryN(3))) = Reverse(SelectSeq(PushOrder, NotRSP))

C2_PushedDuringBuild ==
    /\ IsCall /\ pc = "done"
    /\ Len(Pushes(SubSeq(st.data, 1, mark))) >= 1
    /\ Len(Pops(EntryN(3))) >= 3

\* C3: the restoreRSP stream, which follows the restoreState stream, is one
\* pop of %rsp if %rsp is on the stack and one lea 0x4000(%rsp),%rsp if
\* not; the restoreState stream never pops %rsp.
C3_RestoreRSPLast ==
    (IsCall /\ pc \in {"data", "done"}) =>
        /\ metadata[3].data < metadata[4].data
        /\ Len(EntryN(4)) = 1
        /\ IF \E i \in 1..Len(PushOrder) : PushOrder[i] = RSP_IDX
           THEN EntryN(4)[1].op = "pop" /\ EntryN(4)[1].r = RSP_IDX
           ELSE EntryN(4)[1].op = "lea_rsp" /\ EntryN(4)[1].s = 16384
        /\ \A i \in 1..Len(EntryN(3)) :
              ~(EntryN(3)[i].op = "pop" /\ EntryN(3)[i].r = RSP_IDX)

C3_RSPPushed ==
    /\ IsCall /\ pc = "done"
    /\ \E i \in 1..mark : st.data[i].op = "push" /\ st.data[i].r = RSP_IDX

\* The registers the loop of lines 1438-1449 looks for: clobbered and not
\* caller-save.
CalleeClobbered(ci) ==
    {r \in 0..(RMAX_IDX - 1) :
        ~isCallerSave(ci, getReg(r)) /\ isClobbered(ci, getReg(r))}

\* The step that ends loadArgs reloads every such register from its slot
\* and leaves none marked clobbered.
RestoresCalleeSave ==
    /\ CalleeClobbered(info') = {}
    /\ \A r \in CalleeClobbered(info) :
          \E i \in (mark' + 1)..Len(st'.data) :
              st'.data[i] = Tok("load_stack", r,
                                rsp_args_offset' + getOffset(info, getReg(r)), Zero)

\* C4 as the specification words it: the registers are restored if the
\* action requests a clean call.
C4_RestoredIfClean ==
    [][(pc = "args" /\ pc' = "function" /\ action.clean) => RestoresCalleeSave]_vars

\* C4: at the end of loadArgs the clobbered registers that are not
\* caller-save are reloaded from their slots and marked no longer clobbered
\* if the action does not request a clean call; for a clean call nothing is
\* reloaded and the CallInfo is left as it is.
C4_RestoredUnlessClean ==
    [][(pc = "args" /\ pc' = "function") =>
          IF action.clean
          THEN /\ info' = info
               /\ \A i \in (mark' + 1)..Len(st'.data) : st'.data[i].op # "load_stack"
          ELSE RestoresCalleeSave]_vars

C4_Restored ==
    /\ IsCall /\ pc = "function" /\ ~action.clean
    /\ \E i \in (mark + 1)..Len(st.data) :
          st.data[i].op = "load_stack" /\ st.data[i].r = getRegIdx("rbx")

\* The arguments passed on the stack, last first.
RECURSIVE StackArgRegs(_)
StackArgRegs(n) ==
    IF n = 0 THEN <<>>
    ELSE (IF getArgRegIdx(n - 1) # n - 1 THEN <<getArgRegIdx(n - 1)>> ELSE <<>>) \o
         StackArgRegs(n - 1)

\* C5: once every argument is loaded, loadArgs pushes exactly the arguments
\* whose register index differs from their argument index, in decreasing
\* argument index, and pushes nothing for the others.
C5_StackArgsRightToLeft ==
    (IsCall /\ pc \in Stages \ {"start", "args"}) =>
        LET rest == SubSeq(st.data, mark + 1, EntryEnd(st.data, mark + 1) - 1)
            want == StackArgRegs(Len(action.args))
        IN  /\ RegIdxs(Pushes(rest)) = want
            /\ Len(rest) >= Len(want)
            /\ Pushes(SubSeq(rest, 1, Len(want))) = SubSeq(rest, 1, Len(want))

C5_TwoStackArgs == IsCall /\ pc = "function" /\ Len(action.args) = MAX_ARGNO

\* The address lookupSymbol returned cannot be called with a rel32.
Unusable(a) == WLt(a, Zero) \/ WLt(INT32_MAX, a)

\* C11: a callee address that is negative or above INT32_MAX ends the build
\* in the fatal state with the loadArgs entry alone; any other address gives
\* a function entry of exactly one rel32 token carrying that address, the
\* only other way the step can end the process being the overflow of the
\* buffer.
C11_FunctionIsOneRel32 ==
    /\ [](IsCall =>
            /\ Unusable(addr) =>
                  /\ pc = "fatal"
                  /\ Len(metadata) = 1
                  /\ metadata[1].name = "loadArgs"
            /\ Len(metadata) >= 2 =>
                  /\ metadata[2].name = "function"
                  /\ EntryN(2) = <<Tok("rel32", 0, 0, addr)>>)
    /\ [][(pc = "function" /\ pc' = "fatal" /\ ~Unusable(addr')) =>
             (st'.err /\ metadata' = metadata)]_vars

C11_LookupTooFar ==
    /\ IsCall /\ pc = "fatal"
    /\ WLt(INT32_MAX, addr)
    /\ Len(metadata) = 1
    /\ ~st.err

\* The entry that starts at buffer position p ends with a NUL inside the
\* buffer.
Terminated(p) ==
    /\ EntryEnd(st.data, p + 1) <= Len(st.data)
    /\ st.data[EntryEnd(st.data, p + 1)] = NUL

\* C12: nothing is stored beyond the capacity of the buffer; once a write
\* did not fit, the build is still inside the argument loop or has ended in
\* the fatal state, so that it never gets past the end of the entry that did
\* not fit; every entry of the metadata array, and so every entry of an
\* array that is returned, is whole and NUL-terminated.  The entries of a
\* known length (function, restoreRSP, asmStr with asmStrLen) end the build
\* exactly when they do not fit.
C12_OverflowIsFatal ==
    /\ [](/\ Len(st.data) <= size
          /\ st.err => pc \in {"args", "fatal"}
          /\ pc = "done" => ~st.err
          /\ \A i \in 1..Len(metadata) :
                ~metadata[i].null => Terminated(metadata[i].data))
    /\ [][st.err => st'.err]_vars
    /\ [][(pc = "restoreRSP" /\ pc' # pc) =>
             (pc' = "fatal" <=> Len(st.data) + 2 > size)]_vars
    /\ [][(pc = "function" /\ pc' # pc /\ ~Unusable(addr')) =>
             (pc' = "fatal" <=> Len(st.data) + 2 > size)]_vars
    /\ [][(pc = "start" /\ action.kind = "print" /\ st' # st) =>
             (pc' = "fatal" <=> size < Len(sendAsmStrData(I, TRUE)) + 3)]_vars

C12_Overflowed ==
    /\ IsCall /\ pc = "fatal"
    /\ st.err
    /\ Len(st.data) = size
    /\ Len(metadata) >= 2

(***************************************************************************)
(* The print action and the actions without metadata, over every short     *)
(* rendering of the instruction.                                           *)
(***************************************************************************)
MaxStrLen == 2

\* The characters of a rendering: a letter, the seven characters
\* sendStringCharData has a case for, and one control character it has no
\* case for.
Escaped7 == {"backslash", "quote", "newline", "tab", "return", "backspace",
             "formfeed"}
ControlChars == {"newline", "tab", "return", "backspace", "formfeed", "vtab"}
Alphabet == {"n"} \cup Escaped7 \cup ControlChars
OutChars == Alphabet \cup {"t", "r", "b", "f"}

Strings == UNION {[1..n -> Alphabet] : n \in 0..MaxStrLen}

InitPrint ==
    /\ \E string \in Strings : I = Instr("mov", W(4096), 3, string, <<>>)
    /\ \E k \in {"null", "exit", "passthru", "plugin", "trap", "print"} :
          action = Action(k, "before", FALSE, <<>>)
    /\ size \in BufSizes
    /\ InitBuild
    /\ seed = 0
    /\ unit = NoUnit

NextPrint ==
    \/ BuildNothing
    \/ BuildOpenFails
    \/ BuildPrint

SpecPrint == InitPrint /\ [][NextPrint]_vars

\* Reading a quoted string back: the name of an output character, the
\* character a backslash pair stands for, the characters of the body, and
\* the characters that stand in the body outside a backslash pair.
CharName(tok) == CHOOSE c \in OutChars : Char(c) = tok

Unescape(c) ==
    CASE c = "n" -> "newline"
      [] c = "t" -> "tab"
      [] c = "r" -> "return"
      [] c = "b" -> "backspace"
      [] c = "f" -> "formfeed"
      [] OTHER -> c

RECURSIVE Decode(_, _, _)
Decode(toks, i, last) ==
    IF i > last THEN <<>>
    ELSE IF toks[i] = Char("backslash") /\ i < last
         THEN <<Unescape(CharName(toks[i + 1]))>> \o Decode(toks, i + 2, last)
         ELSE <<CharName(toks[i])>> \o Decode(toks, i + 1, last)

RECURSIVE RawChars(_, _, _)
RawChars(toks, i, last) ==
    IF i > last THEN {}
    ELSE IF toks[i] = Char("backslash") /\ i < last
         THEN RawChars(toks, i + 2, last)
         ELSE {CharName(toks[i])} \cup RawChars(toks, i + 1, last)

Quoted(toks) ==
    /\ Len(toks) >= 2
    /\ toks[1] = Char("quote")
    /\ toks[Len(toks)] = Char("quote")

\* The entries of a print build that returned, and the builds that return
\* null.
PrintEntries ==
    /\ (pc = "done" /\ action.kind = "print") =>
          /\ Len(metadata) = 3
          /\ metadata[1].name = "asmStr"
          /\ metadata[2].name = "asmStrLen"
          /\ metadata[3].null
          /\ Quoted(EntryN(1))
          /\ Decode(EntryN(1), 2, Len(EntryN(1)) - 1) = I.string \o <<"newline">>
          /\ EntryN(2) = <<Tok("int32", 0, 0, W(Len(I.string) + 1))>>
    /\ action.kind \in {"null", "exit", "passthru", "plugin", "trap"} =>
          /\ pc \in {"start", "null"}
          /\ st = Stream(<<>>, FALSE)
          /\ pos = 0
          /\ metadata = <<>>
    /\ action.kind = "print" => pc # "null"

RawInAsmStr ==
    IF pc = "done" /\ action.kind = "print"
    THEN RawChars(EntryN(1), 2, Len(EntryN(1)) - 1)
    ELSE {}

\* C13 as stated: a print action yields exactly the entries asmStr (quoted,
\* newline appended, backslash, quote and control characters escaped) and
\* asmStrLen (the length of the unescaped rendering plus one, as int32)
\* followed by the null entry; the actions exit, passthru, plugin, trap and
\* no action return null without writing.
C13_PrintEscapesControls ==
    /\ PrintEntries
    /\ RawInAsmStr \cap ({"backslash", "quote"} \cup ControlChars) = {}

\* C13 amended: as above, where the escaped characters are backslash, quote,
\* newline, tab, carriage return, backspace and form feed, and every other
\* character, a control character among them, is copied unchanged.
C13_PrintEscapesSeven ==
    /\ PrintEntries
    /\ RawInAsmStr \cap Escaped7 = {}
    /\ (pc = "done" /\ action.kind = "print") =>
          RawInAsmStr = {I.string[i] : i \in 1..Len(I.string)} \ Escaped7

C13_PrintedWithControl ==
    /\ pc = "done" /\ action.kind = "print"
    /\ I.string = <<"quote", "vtab">>
    /\ EntryN(1) = <<Char("quote"), Char("backslash"), Char("quote"), Char("vtab"),
                     Char("backslash"), Char("n"), Char("quote")>>

(***************************************************************************)
(* Several sites built one after the other by one process: the tool calls  *)
(* buildMetadata once for each matched instruction.                        *)
(***************************************************************************)
MaxSites == 3

Sites ==
    {[I |-> I_mov, action |-> Action("call", "before", FALSE, <<Simple("random")>>)],
     [I |-> I_mov, action |-> Action("call", "before", FALSE, <<IntArg(W(5))>>)],
     [I |-> I_ret, action |-> Action("print", "before", FALSE, <<>>)],
     [I |-> I_ret, action |-> Action("null", "before", FALSE, <<>>)]}

InitSites ==
    /\ \E s \in Sites : I = s.I /\ action = s.action
    /\ size = LargeBuf
    /\ InitBuild
    /\ seed = 0
    /\ unit = [phase |-> "sites", built |-> <<>>]

\* What a build that returned was given and what it returned.
Returned == pc \in {"done", "null"}

ThisSite ==
    [action |-> action, I |-> I, size |-> size, addr |-> addr,
     metadata |-> metadata, data |-> st.data]

\* The caller takes the metadata and goes on to the next site.
NextSite ==
    /\ Returned
    /\ Len(unit.built) + 1 < MaxSites
    /\ unit' = [unit EXCEPT !.built = Append(@, ThisSite)]
    /\ \E s \in Sites : I' = s.I /\ action' = s.action
    /\ pc' = "start"
    /\ info' = CallInfo(FALSE, FALSE, FALSE, 0, TRUE)
    /\ st' = Stream(<<>>, FALSE)
    /\ pos' = 0
    /\ metadata' = <<>>
    /\ argno' = 0
    /\ sig' = <<>>
    /\ warns' = <<>>
    /\ mark' = 0
    /\ rsp_args_offset' = 0
    /\ pop_rsp' = FALSE
    /\ addr' = Zero
    /\ UNCHANGED <<size, seed>>

NextSites ==
    \/ BuildNothing
    \/ BuildOpenFails
    \/ BuildPrint
    \/ BuildCall
    \/ LoadArgument
    \/ FinishLoadArgs
    \/ FindFunction
    \/ RestoreState
    \/ RestoreRSP
    \/ PlaceData
    \/ NextSite

SpecSites == InitSites /\ [][NextSites]_vars

Built == IF Returned THEN Append(unit.built, ThisSite) ELSE unit.built

\* C14: two builds given the same action, instruction and id and the same
\* answers from the symbol lookup return identical metadata entries,
\* whatever sites were built before or between them.
C14_SitesIndependent ==
    \A i, j \in 1..Len(Built) :
        (/\ Built[i].action = Built[j].action
         /\ Built[i].I = Built[j].I
         /\ Built[i].size = Built[j].size
         /\ Built[i].addr = Built[j].addr)
        => /\ Built[i].metadata = Built[j].metadata
           /\ Built[i].data = Built[j].data

\* Builds without a random argument are independent.
SitesIndependentButRandom ==
    \A i, j \in 1..Len(Built) :
        (/\ Built[i].action = Built[j].action
         /\ ~HasRandom(Built[i].action.args)
         /\ Built[i].I = Built[j].I
         /\ Built[i].size = Built[j].size
         /\ Built[i].addr = Built[j].addr)
        => /\ Built[i].metadata = Built[j].metadata
           /\ Built[i].data = Built[j].data

(***************************************************************************)
(* Properties of one iteration of the argument loop.                       *)
(***************************************************************************)
\* One call of sendLoadArgumentMetadata that got past the test on the
\* argument number.
ArgStep ==
    /\ pc = "args" /\ pc' \in {"args", "fatal"}
    /\ argno < Len(action.args)
    /\ getArgRegIdx(argno) >= 0

CurArg == action.args[argno + 1]

CurOp ==
    getOperand(I, CurArg.idx, KindOpType(CurArg.kind), KindAccess(CurArg.kind))

\* What the step wrote, and the part of it that saves the argument register.
StepToks == SubSeq(st'.data, Len(st.data) + 1, Len(st'.data))

SavedArgReg == sendSaveRegToStack(info, getReg(getArgRegIdx(argno)))

Contains(toks, sub) ==
    /\ Len(sub) > 0
    /\ \E i \in 1..(Len(toks) - Len(sub) + 1) :
          SubSeq(toks, i, i + Len(sub) - 1) = sub

\* The step loaded constant 0 into the argument register and nothing else.
ZeroLoaded ==
    StepToks = SavedArgReg.toks \o
               <<Tok("movsx_i32", getArgRegIdx(argno), 0, Zero)>>

\* The step ends with the load of constant 0.
ZeroLoadedLast ==
    /\ Len(StepToks) > 0
    /\ StepToks[Len(StepToks)] = Tok("movsx_i32", getArgRegIdx(argno), 0, Zero)

\* The step printed exactly one diagnostic, one of codes.
Warned(codes) ==
    \E code \in codes : warns' = Append(warns, [argno |-> argno, code |-> code])

\* The step wrote the opcode of a sign-extending mov from memory of the
\* operand's size.
MemLoadEmitted == Contains(StepToks, OpcodeBytes(FALSE, CurOp.size))

\* An operand argument that resolves to a memory operand, passed by value
\* with no field selector.
MemByValue ==
    /\ CurArg.kind \in OperandKinds
    /\ ~CurArg.ptr /\ CurArg.field = "none"
    /\ CurOp # NullOp /\ CurOp.type = "mem"

Refused ==
    \/ action.call = "after"
    \/ I.mnemonic \in {"lea", "nop"}
    \/ CurOp.access = 0

RefusedRead ==
    /\ pc' = "args"
    /\ ZeroLoaded
    /\ Warned({"after", "unaccessed"})
    /\ sig' = Append(sig, TYPE_NULL_PTR)

C10_MissingOperandIsSoft ==
    /\ [][(ArgStep /\ CurArg.kind \in OperandKinds /\ CurOp = NullOp /\ ~st'.err) =>
             /\ pc' = "args"
             /\ Warned({"range"})
             /\ ZeroLoaded
             /\ sig' = Append(sig, TYPE_NULL_PTR)
             /\ argno' = argno + 1]_vars
    /\ []((IsCall /\ pc = "done") =>
             /\ Len(sig) = Len(action.args)
             /\ Len(metadata) = Len(CallEntries) + 1
             /\ \A i \in 1..Len(CallEntries) :
                   metadata[i].name = CallEntries[i] /\ ~metadata[i].null
             /\ metadata[Len(CallEntries) + 1] = NullEntry)

C10_ReturnedAfterMissing ==
    /\ IsCall /\ pc = "done"
    /\ \E i \in 1..Len(warns) :
          /\ warns[i].code = "range"
          /\ warns[i].argno + 1 < Len(action.args)
          /\ sig[warns[i].argno + 1] = TYPE_NULL_PTR

(***************************************************************************)
(* The machine the emitted tokens run on: the registers (by index) and the *)
(* stack around %rsp (offset from %rsp -> value).  Values are wide         *)
(* integers.                                                               *)
(***************************************************************************)
Machine(regs, mem) == [regs |-> regs, mem |-> mem]

Exec1(m, tok) ==
    IF tok.op = "movsx_i32" THEN [m EXCEPT !.regs[tok.r] = ToInt32(tok.v)]
    ELSE IF tok.op = "movzx_i32" THEN [m EXCEPT !.regs[tok.r] = ToUInt32(tok.v)]
    ELSE IF tok.op = "mov_i64" THEN [m EXCEPT !.regs[tok.r] = tok.v]
    ELSE IF tok.op = "mov_r64" THEN [m EXCEPT !.regs[tok.r] = m.regs[tok.s]]
    ELSE IF tok.op = "store_stack" THEN [m EXCEPT !.mem[tok.s] = m.regs[tok.r]]
    ELSE IF tok.op = "load_stack" THEN [m EXCEPT !.regs[tok.r] = m.mem[tok.s]]
    ELSE m

RECURSIVE Exec(_, _, _)
Exec(m, toks, i) ==
    IF i > Len(toks) THEN m ELSE Exec(Exec1(m, toks[i]), toks, i + 1)

\* The build variables of a run of one helper on its own.
IdleBuild ==
    /\ action = Action("null", "before", FALSE, <<>>)
    /\ I = I_ret
    /\ size = LargeBuf
    /\ InitBuild
    /\ seed = 0

(***************************************************************************)
(* SpecValue: sendLoadValueMetadata on its own, and the token it emits     *)
(* executed.                                                               *)
(***************************************************************************)
\* How far either side of a 32-bit boundary the values go.
MaxDelta == 2

Values ==
    {WAdd(b, W(d)) : b \in {Zero, INT32_MIN, INT32_MAX, UINT32_MAX},
                     d \in (0 - MaxDelta)..MaxDelta}
    \cup {<<B30, 1>>, <<0 - B30, 1>>, <<16, 5>>, <<-16, 5>>}

ArgRegs == {getArgRegIdx(a) : a \in 0..(MAX_ARGNO - 1)}

Junk == W(77)

InitValue ==
    /\ IdleBuild
    /\ \E v \in Values, r \in ArgRegs :
          unit = [phase |-> "value", value |-> v, regno |-> r, toks |-> <<>>,
                  m |-> Machine([i \in 0..RMAX_IDX |-> Junk], <<>>)]

RunLoadValue ==
    /\ unit.phase = "value"
    /\ unit' = [unit EXCEPT
                  !.phase = "valueDone",
                  !.toks = sendLoadValueMetadata(unit.value, unit.regno),
                  !.m = Exec(unit.m, sendLoadValueMetadata(unit.value, unit.regno), 1)]
    /\ UNCHANGED build

NextValue == RunLoadValue

SpecValue == InitValue /\ [][NextValue]_vars

(***************************************************************************)
(* SpecTemp: the temporary-register protocol on its own.  A round opens    *)
(* with sendTemporarySaveReg or sendTemporaryRestoreReg on a register and  *)
(* closes with sendUndoTemporaryMovReg on the token the opening call       *)
(* returned; the tokens are executed as they are emitted.                  *)
(***************************************************************************)
MaxTempArgs == 3
MaxRounds == 2
MaxSlots == 2

TempRegs == {"rdi", "rsi", "rax", "rbx"}

\* The CallInfo after the first k arguments have been loaded.
RECURSIVE LoadedArgs(_, _)
LoadedArgs(ci, k) ==
    IF k = 0 THEN ci
    ELSE use(clobber(LoadedArgs(ci, k - 1), getReg(getArgRegIdx(k - 1))),
             getReg(getArgRegIdx(k - 1)))

TempInfos ==
    {LoadedArgs(IF rbx THEN push(ci, "rbx") ELSE ci, k) :
        ci \in {CallInfo(FALSE, FALSE, c, n, TRUE) :
                  c \in BOOLEAN, n \in 0..MaxTempArgs},
        rbx \in BOOLEAN, k \in 0..MaxTempArgs}

\* The value a register held when the trampoline was entered, and the
\* machine a CallInfo describes: a clobbered register holds something else,
\* a saved register's slot holds the original value.
Orig(r) == W(100 + r)

TempMachine(ci) ==
    Machine([r \in 0..RMAX_IDX |->
                IF getReg(r) \in ci.clobbered THEN W(200 + r) ELSE Orig(r)],
            [o \in {(0 - 8) * k : k \in 1..MaxSlots} \cup
                   {8 * k : k \in 0..(Len(ci.pushed) - 1)} |->
                IF o < 0 THEN Junk
                ELSE Orig(getRegIdx(ci.pushed[Len(ci.pushed) - (o \div 8)]))])

Excludes(reg) ==
    {<<reg>>, <<reg, "rsi">>,
     <<reg, "rdi", "rsi", "rdx", "rcx", "r8", "r9", "r10", "r11", "rax", "rbx">>}

InitTemp ==
    /\ IdleBuild
    /\ \E ci \in TempInfos :
          unit = [phase |-> "idle", info |-> ci, m |-> TempMachine(ci),
                  reg |-> REGISTER_NONE, kind |-> "none", token |-> 0,
                  before |-> Zero, wasClobbered |-> FALSE, wasUsed |-> FALSE,
                  undo |-> <<>>, rounds |-> 0]

TempOpened(kind, reg, r) ==
    unit' = [unit EXCEPT
               !.phase = "open", !.info = r.info, !.m = Exec(unit.m, r.toks, 1),
               !.reg = reg, !.kind = kind, !.token = r.scratch,
               !.before = unit.m.regs[getRegIdx(reg)],
               !.wasClobbered = isClobbered(unit.info, reg),
               !.wasUsed = isUsed(unit.info, reg),
               !.undo = <<>>]

TempSave ==
    /\ unit.phase = "idle"
    /\ \E reg \in TempRegs : \E exclude \in Excludes(reg) :
          TempOpened("save", reg, sendTemporarySaveReg(unit.info, reg, exclude, 0))
    /\ UNCHANGED build

TempRestore ==
    /\ unit.phase = "idle"
    /\ \E reg \in TempRegs : \E exclude \in Excludes(reg) :
          TempOpened("restore", reg,
                     sendTemporaryRestoreReg(unit.info, reg, exclude, 0))
    /\ UNCHANGED build

TempUndo ==
    /\ unit.phase = "open"
    /\ unit' = [unit EXCEPT
                  !.phase = "closed",
                  !.undo = sendUndoTemporaryMovReg(unit.reg, unit.token),
                  !.m = Exec(unit.m, sendUndoTemporaryMovReg(unit.reg, unit.token), 1)]
    /\ UNCHANGED build

TempAgain ==
    /\ unit.phase = "closed"
    /\ unit.rounds + 1 < MaxRounds
    /\ unit' = [unit EXCEPT !.phase = "idle", !.rounds = @ + 1]
    /\ UNCHANGED build

NextTemp == TempSave \/ TempRestore \/ TempUndo \/ TempAgain

SpecTemp == InitTemp /\ [][NextTemp]_vars

(***************************************************************************)
(* SpecMemOp: sendLoadFromMemOpToR64 on its own, over displacements and    *)
(* instruction addresses either side of the 32-bit boundaries.             *)
(***************************************************************************)
MemOpArgs == 1
MemOpInstrSize == 7

Disps ==
    {INT32_MIN, WAdd(INT32_MIN, W(256)), W(-1), Zero, W(256),
     WAdd(INT32_MAX, W(0 - REDZONE)), WAdd(INT32_MAX, W(1 - REDZONE)), INT32_MAX}

Addrs == {W(4096), WAdd(INT32_MAX, W(-255)), <<2, 0>>, <<4, 100>>}

MemOpInstr(address) == Instr("mov", address, MemOpInstrSize, <<>>, <<>>)

\* The displacement the claim speaks of: adjusted, as a mathematical integer.
Adjusted(u) ==
    IF u.base \in {"rsp", "esp"} THEN WAdd(u.disp, W(u.info.rsp_offset))
    ELSE IF u.base \in {"rip", "eip"}
    THEN WAdd(u.disp, WAdd(u.address, W(MemOpInstrSize)))
    ELSE u.disp

InitMemOp ==
    /\ IdleBuild
    /\ \E d \in Disps, b \in {"rsp", "esp", "rip", "eip", "rax"}, a \in Addrs,
          l \in BOOLEAN, n \in 0..MemOpArgs :
          unit = [phase |-> "memop", disp |-> d, base |-> b, address |-> a,
                  lea |-> l, regno |-> n,
                  info |-> CallInfo(FALSE, FALSE, FALSE, n + 1, TRUE),
                  res |-> MemResult(TRUE, <<>>, CallInfo(FALSE, FALSE, FALSE, n + 1,
                                                         TRUE), <<>>, FALSE)]

RunMemOp ==
    /\ unit.phase = "memop"
    /\ \E ub \in UBOutcomes :
          unit' = [unit EXCEPT
                     !.phase = "memopDone",
                     !.res = sendLoadFromMemOpToR64(
                                 MemOpInstr(unit.address), unit.info, 8,
                                 REGISTER_NONE, unit.disp, unit.base,
                                 REGISTER_NONE, 1, unit.lea, unit.regno, ub)]
    /\ UNCHANGED build

NextMemOp == RunMemOp

SpecMemOp == InitMemOp /\ [][NextMemOp]_vars

(***************************************************************************)
(* Properties of the helpers on their own.                                 *)
(***************************************************************************)
\* C7: sendLoadValueMetadata emits one instruction into the argument
\* register: the sign-extending form exactly when INT32_MIN <= V <= INT32_MAX,
\* otherwise the zero-extending form exactly when 0 <= V <= UINT32_MAX,
\* otherwise the 64-bit move; executed, it leaves exactly V in the register.
C7_LoadsExactValue ==
    unit.phase = "valueDone" =>
        /\ Len(unit.toks) = 1
        /\ unit.toks[1].r = unit.regno
        /\ unit.toks[1].op \in {"movsx_i32", "movzx_i32", "mov_i64"}
        /\ unit.toks[1].op = "movsx_i32" <=>
              (WLe(INT32_MIN, unit.value) /\ WLe(unit.value, INT32_MAX))
        /\ unit.toks[1].op = "movzx_i32" <=>
              (WLt(INT32_MAX, unit.value) /\ WLe(unit.value, UINT32_MAX))
        /\ unit.m.regs[unit.regno] = unit.value
        /\ \A r \in 0..RMAX_IDX : r # unit.regno => unit.m.regs[r] = Junk

C7_ZeroExtended ==
    /\ unit.phase = "valueDone"
    /\ unit.value = WAdd(INT32_MAX, W(1))
    /\ unit.toks[1].op = "movzx_i32"
    /\ unit.m.regs[unit.regno] = unit.value

\* A round that opened with sendTemporaryRestoreReg on a register that was
\* clobbered and not in use.
DroppedRound == unit.kind = "restore" /\ unit.wasClobbered /\ ~unit.wasUsed

C8_OutOfRangeFails ==
    (unit.phase = "memopDone" /\ ~FitsI32(Adjusted(unit))) =>
        /\ ~unit.res.ok
        /\ ~unit.res.fatal
        /\ unit.res.warn = <<"displacement">>
        /\ unit.res.toks = sendSExtFromI32ToR64(Zero, unit.regno)

(***************************************************************************)
(* SpecFlow: sendLoadNextMetadata and sendLoadTargetMetadata on their own. *)
(* The tokens one call emits are run on a machine with flags, one token a  *)
(* step, from the machine state the CallInfo describes.                    *)
(***************************************************************************)
MaxFlowArgs == 5

Flags(o, sf, z, c, pf) == [of |-> o, sf |-> sf, zf |-> z, cf |-> c, pf |-> pf]

AllFlags == {Flags(o, sf, z, c, pf) : o, sf, z, c, pf \in BOOLEAN}

\* The processor's evaluation of the condition a short jcc opcode encodes
\* (bits 3..1 select the test, bit 0 negates it).
CondHolds(opcode, f) ==
    LET Negated(t, odd) == IF odd THEN ~t ELSE t
        Test(n) ==
            CASE n = 0 -> f.of
              [] n = 1 -> f.cf
              [] n = 2 -> f.zf
              [] n = 3 -> f.cf \/ f.zf
              [] n = 4 -> f.sf
              [] n = 5 -> f.pf
              [] n = 6 -> f.sf # f.of
              [] OTHER -> f.zf \/ (f.sf # f.of)
    IN  Negated(Test(((opcode - 112) \div 2) % 8), opcode % 2 = 1)

\* Whether the instruction itself jumps.
JumpTaken(mnemonic, f, rcx) ==
    CASE mnemonic = "jo" -> f.of
      [] mnemonic = "jno" -> ~f.of
      [] mnemonic = "jb" -> f.cf
      [] mnemonic = "jae" -> ~f.cf
      [] mnemonic = "je" -> f.zf
      [] mnemonic = "jne" -> ~f.zf
      [] mnemonic = "jbe" -> f.cf \/ f.zf
      [] mnemonic = "ja" -> ~f.cf /\ ~f.zf
      [] mnemonic = "js" -> f.sf
      [] mnemonic = "jns" -> ~f.sf
      [] mnemonic = "jp" -> f.pf
      [] mnemonic = "jnp" -> ~f.pf
      [] mnemonic = "jl" -> f.sf # f.of
      [] mnemonic = "jge" -> f.sf = f.of
      [] mnemonic = "jle" -> f.zf \/ (f.sf # f.of)
      [] mnemonic = "jg" -> ~f.zf /\ (f.sf = f.of)
      [] mnemonic = "jecxz" -> ToUInt32(rcx) = Zero
      [] mnemonic = "jrcxz" -> rcx = Zero
      [] OTHER -> FALSE

\* The address the patcher gives the label .Lcontinue, and what the
\* original %rsp points at.
ContinueAddr == W(900000)
ReturnAddr == W(7777)
RCX_IDX == getRegIdx("rcx")

FlowInstr(mnemonic, op) == Instr(mnemonic, W(4096), 2, <<>>, op)

BranchInstrs ==
    {FlowInstr(mn, <<ImmOp(4, W(16))>>) : mn \in DOMAIN Jcc \cup {"jecxz", "jrcxz"}}

TargetInstrs ==
    {I_ret, I_jmp, I_mov,
     FlowInstr("jmp", <<RegOp("rax", ACCESS_READ)>>),
     FlowInstr("call", <<RegOp("rdi", ACCESS_READ)>>),
     FlowInstr("call", <<ImmOp(4, W(256))>>),
     FlowInstr("jmp", <<ImmOp(4, W(-8))>>),
     FlowInstr("jmp", <<RegOp("rsp", ACCESS_READ)>>)}

\* The CallInfo when argument k of n is loaded; scr: an earlier load took
\* %rcx as its scratch register.
FlowInfos ==
    {[k |-> k,
      info |-> IF scr THEN clobber(LoadedArgs(CallInfo(FALSE, FALSE, FALSE, n, TRUE), k),
                                   "rcx")
               ELSE LoadedArgs(CallInfo(FALSE, FALSE, FALSE, n, TRUE), k)] :
        n \in 1..MaxFlowArgs, k \in 0..(MaxFlowArgs - 1), scr \in BOOLEAN}

\* %rsp itself has moved down by rsp_offset since the trampoline was entered.
FlowMachine(ci, rcx0) ==
    LET Was(r) == IF r = RCX_IDX THEN rcx0 ELSE Orig(r)
    IN  Machine([r \in 0..RMAX_IDX |->
                    IF getReg(r) \in ci.clobbered THEN W(200 + r)
                    ELSE IF r = RSP_IDX THEN WAdd(Orig(r), W(0 - ci.rsp_offset))
                    ELSE Was(r)],
                [o \in {(0 - 8) * k : k \in 1..MaxSlots} \cup
                       {8 * k : k \in 0..(Len(ci.pushed) - 1)} \cup
                       {ci.rsp_offset} |->
                    IF o < 0 THEN Junk
                    ELSE IF o = ci.rsp_offset THEN ReturnAddr
                    ELSE Was(getRegIdx(ci.pushed[Len(ci.pushed) - (o \div 8)]))])

InitFlow ==
    /\ IdleBuild
    /\ \E i \in BranchInstrs \cup TargetInstrs, fi \in FlowInfos :
          /\ fi.k < Len(fi.info.pushed)
          /\ \E f \in (IF i.mnemonic \in DOMAIN Jcc THEN AllFlags
                        ELSE {Flags(FALSE, FALSE, FALSE, FALSE, FALSE)}),
                rcx0 \in (IF i.mnemonic \in {"jecxz", "jrcxz"}
                          THEN {Zero, W(5), <<4, 0>>} ELSE {Orig(RCX_IDX)}) :
                unit = [phase |-> "idle", fn |-> "none", I |-> i, info0 |-> fi.info,
                        regno |-> getArgRegIdx(fi.k), flags |-> f, rcx0 |-> rcx0,
                        m0 |-> FlowMachine(fi.info, rcx0),
                        m |-> FlowMachine(fi.info, rcx0),
                        res |-> MemResult(TRUE, <<>>, fi.info, <<>>, FALSE),
                        ip |-> 1, trace |-> <<>>, tests |-> <<>>, addr32 |-> FALSE]

Emitted(fn, r) ==
    unit' = [unit EXCEPT !.phase = "run", !.fn = fn, !.res = r]

RunNext ==
    /\ unit.phase = "idle"
    /\ \E ub \in UBOutcomes :
          Emitted("next", sendLoadNextMetadata(unit.I, unit.info0, unit.regno, ub))
    /\ UNCHANGED build

RunTarget ==
    /\ unit.phase = "idle"
    /\ \E ub \in UBOutcomes :
          Emitted("target", sendLoadTargetMetadata(unit.I, unit.info0, unit.regno, ub))
    /\ UNCHANGED build

LabelAt(toks, name, r) == CHOOSE i \in 1..Len(toks) : toks[i] = Label(name, r)

\* One token of the fragment: the machine, the next token, and whether the
\* token was an address-size prefix.
FlowExec(u, tok) ==
    LET Go(m, ip, a32) == [m |-> m, ip |-> ip, addr32 |-> a32]
        Zeroed == IF u.addr32 THEN ToUInt32(u.m.regs[RCX_IDX]) = Zero
                  ELSE u.m.regs[RCX_IDX] = Zero
        Jump == IF tok.s = 227 THEN Zeroed ELSE CondHolds(tok.s, u.flags)
    IN  IF tok.op = "jcc_taken"
        THEN Go(u.m, IF Jump THEN LabelAt(u.res.toks, "taken", tok.r) ELSE u.ip + 1,
                FALSE)
        ELSE IF tok.op = "jmp_next"
        THEN Go(u.m, LabelAt(u.res.toks, "next", tok.r), FALSE)
        ELSE IF tok = Byte(103) THEN Go(u.m, u.ip + 1, TRUE)
        ELSE IF tok.op = "lea_pcrel"
        THEN Go([u.m EXCEPT !.regs[tok.r] = tok.v], u.ip + 1, FALSE)
        ELSE IF tok.op = "lea_continue"
        THEN Go([u.m EXCEPT !.regs[tok.r] = ContinueAddr], u.ip + 1, FALSE)
        ELSE Go(Exec1(u.m, tok), u.ip + 1, FALSE)

FlowStep ==
    /\ unit.phase = "run"
    /\ unit.ip <= Len(unit.res.toks)
    /\ LET Stepped(tok, e) ==
               unit' = [unit EXCEPT
                          !.m = e.m, !.ip = e.ip, !.addr32 = e.addr32,
                          !.trace = Append(@, unit.ip),
                          !.tests = IF tok.op = "jcc_taken"
                                    THEN Append(@, unit.m.regs[RCX_IDX]) ELSE @]
       IN  Stepped(unit.res.toks[unit.ip], FlowExec(unit, unit.res.toks[unit.ip]))
    /\ UNCHANGED build

NextFlow == RunNext \/ RunTarget \/ FlowStep

SpecFlow == InitFlow /\ [][NextFlow]_vars

Ran(fn) ==
    /\ unit.phase = "run"
    /\ unit.fn = fn
    /\ unit.ip > Len(unit.res.toks)

\* The address of the instruction the processor executes after unit.I.
NextAddr(u) ==
    IF JumpTaken(u.I.mnemonic, u.flags, u.rcx0)
    THEN WAdd(WAdd(u.I.address, W(u.I.size)), u.I.op[1].imm)
    ELSE ContinueAddr

\* The fragment ended by running into the label .Lnext<reg>.
EndsAtNext(u) ==
    /\ u.trace # <<>>
    /\ u.trace[Len(u.trace)] = Len(u.res.toks)
    /\ u.res.toks[Len(u.res.toks)] = Label("next", u.regno)

\* The tokens between .Ltaken<reg> and .Lnext<reg>.
TakenPart(u) ==
    (LabelAt(u.res.toks, "taken", u.regno) + 1) ..
    (LabelAt(u.res.toks, "next", u.regno) - 1)

\* C15: for a conditional jump jo..jg the fragment sendLoadNextMetadata emits
\* ends at .Lnext<reg> on both paths with the next address in the register
\* asked for (the target when the jump is taken, .Lcontinue when not); the
\* emitted jcc carries the instruction's own condition; and when the jump is
\* not taken no token of the target load executes.
C15_JccNextAddress ==
    /\ (unit.phase = "run" /\ unit.fn = "next" /\ unit.I.mnemonic \in DOMAIN Jcc) =>
          /\ unit.res.toks[1].op = "jcc_taken"
          /\ unit.res.toks[1].s = Jcc[unit.I.mnemonic]
          /\ \A f \in AllFlags :
                CondHolds(unit.res.toks[1].s, f) = JumpTaken(unit.I.mnemonic, f, Zero)
          /\ unit.res.info = unit.info0
    /\ (Ran("next") /\ unit.I.mnemonic \in DOMAIN Jcc) =>
          /\ EndsAtNext(unit)
          /\ unit.m.regs[unit.regno] = NextAddr(unit)
          /\ \A r \in 0..RMAX_IDX : r # unit.regno => unit.m.regs[r] = unit.m0.regs[r]
          /\ unit.m.mem = unit.m0.mem
          /\ JumpTaken(unit.I.mnemonic, unit.flags, Zero) =>
                Range(unit.trace) \cap TakenPart(unit) # {}
          /\ ~JumpTaken(unit.I.mnemonic, unit.flags, Zero) =>
                Range(unit.trace) \cap TakenPart(unit) = {}

C15_NotTakenRan ==
    /\ Ran("next")
    /\ unit.I.mnemonic = "jle"
    /\ unit.flags = Flags(TRUE, TRUE, FALSE, FALSE, FALSE)
    /\ unit.m.regs[unit.regno] = ContinueAddr
    /\ Len(unit.trace) = 4

IsRcxJump(u) == u.fn = "next" /\ u.I.mnemonic \in {"jecxz", "jrcxz"}

\* C16: for jecxz and jrcxz the emitted test executes with the original
\* value of %rcx in %rcx whatever the tracker says of %rcx; when the fragment
\* is left the register asked for holds the next address, and %rcx holds
\* again what it held before the fragment whenever it is marked used.
C16_RcxJumpNextAddress ==
    /\ (unit.phase = "run" /\ IsRcxJump(unit)) =>
          \A i \in 1..Len(unit.tests) : unit.tests[i] = unit.rcx0
    /\ (Ran("next") /\ IsRcxJump(unit)) =>
          /\ Len(unit.tests) = 1
          /\ LabelAt(unit.res.toks, "next", unit.regno) \in Range(unit.trace)
          /\ unit.m.regs[unit.regno] = NextAddr(unit)
          /\ isUsed(unit.info0, "rcx") =>
                /\ unit.m.regs[RCX_IDX] = unit.m0.regs[RCX_IDX]
                /\ isUsed(unit.res.info, "rcx")
                /\ isClobbered(unit.res.info, "rcx")

C16_UsedRcxBack ==
    /\ Ran("next")
    /\ unit.I.mnemonic = "jecxz"
    /\ unit.rcx0 = <<4, 0>>
    /\ isUsed(unit.info0, "rcx")
    /\ unit.tests = <<(<<4, 0>>)>>
    /\ unit.m.regs[unit.regno] = W(4114)
    /\ unit.m.regs[RCX_IDX] = W(200 + RCX_IDX)
    /\ unit.m.mem[0 - 8] = W(200 + RCX_IDX)

\* The value a register held when the trampoline was entered.
Original(u, reg) == IF reg = "rcx" THEN u.rcx0 ELSE Orig(getRegIdx(reg))

IsTargetOf(u, type) ==
    /\ u.I.mnemonic \in ControlFlow
    /\ Len(u.I.op) = 1
    /\ u.I.op[1].type = type

\* The cases of C17 other than the register operand.
TargetLoadedNoReg ==
    Ran("target") =>
        /\ (unit.I.mnemonic \notin ControlFlow \cup {"ret"}) =>
              unit.m.regs[unit.regno] = Zero
        /\ unit.I.mnemonic = "ret" =>
              /\ unit.res.toks = <<Tok("load_stack", unit.regno, unit.info0.rsp_offset, Zero)>>
              /\ unit.m.regs[unit.regno] = ReturnAddr
        /\ IsTargetOf(unit, "mem") =>
              /\ Byte(139) \in Range(unit.res.toks)
              /\ Byte(141) \notin Range(unit.res.toks)
        /\ IsTargetOf(unit, "imm") =>
              unit.m.regs[unit.regno] =
                  WAdd(WAdd(unit.I.address, W(unit.I.size)), unit.I.op[1].imm)

\* C17: sendLoadTargetMetadata loads 0 for an instruction that is no ret,
\* call or jump; for ret the 64-bit value at rsp_offset(%rsp); for a register
\* operand the register's original value, from the live register when it is
\* not clobbered and from its saved slot when it is; for a memory operand the
\* value the memory-operand encoder loads (a load, not a lea); for an
\* immediate operand address + length + immediate.
C17_TargetLoaded ==
    /\ TargetLoadedNoReg
    /\ (Ran("target") /\ IsTargetOf(unit, "reg")) =>
          /\ unit.m.regs[unit.regno] = Original(unit, unit.I.op[1].reg)
          /\ unit.res.toks \in
                {sendMovFromR64ToR64(getRegIdx(unit.I.op[1].reg), unit.regno),
                 sendMovFromStackToR64(getOffset(unit.info0, unit.I.op[1].reg),
                                       unit.regno)}
          /\ isClobbered(unit.info0, unit.I.op[1].reg) <=>
                unit.res.toks[1].op = "load_stack"

\* The same with the stack pointer left out of the register operands.
TargetLoadedButRSP ==
    /\ TargetLoadedNoReg
    /\ (Ran("target") /\ IsTargetOf(unit, "reg") /\ unit.I.op[1].reg # "rsp") =>
          /\ unit.m.regs[unit.regno] = Original(unit, unit.I.op[1].reg)
          /\ isClobbered(unit.info0, unit.I.op[1].reg) <=>
                unit.res.toks[1].op = "load_stack"

(***************************************************************************)
(* The marks sendLoadArgumentMetadata leaves on the argument registers.    *)
(***************************************************************************)
ArgReg(a) == getReg(getArgRegIdx(a))

\* C18: when sendLoadArgumentMetadata returns, on the paths that load 0 after
\* a warning as on the others, the argument's register is marked clobbered
\* and used; a register marked used stays used, whatever arguments follow,
\* until the call is emitted.
C18_ArgRegClobberedAndUsed ==
    /\ [][(ArgStep /\ pc' = "args") =>
             /\ isClobbered(info', ArgReg(argno))
             /\ isUsed(info', ArgReg(argno))]_vars
    /\ [][(pc = "args") => info.used \subseteq info'.used]_vars
    /\ [](pc \in {"args", "function"} =>
             \A a \in 0..(argno - 1) : isUsed(info, ArgReg(a)))

C18_UsedAfterWarning ==
    /\ pc = "args"
    /\ argno = 1
    /\ Len(warns) = 1 /\ warns[1].argno = 0
    /\ st.data = sendSExtFromI32ToR64(Zero, getArgRegIdx(0))
    /\ "rdi" \in info.used \cap info.clobbered

(***************************************************************************)
(* SpecType: getOperandType on its own, over operands of every kind and    *)
(* size, both values of ptr and every field.                               *)
(***************************************************************************)
TypeOps ==
    {NullOp} \cup
    {RegOp(r, ACCESS_READ) : r \in {"rax", "ecx", "ax", "ah", "al", "xmm0"}} \cup
    {MemOpnd(sz, ACCESS_READ, Mem(REGISTER_NONE, W(8), b, x, 1)) :
        sz \in {1, 2, 4, 8, 16}, b \in {"rax", "eax", REGISTER_NONE},
        x \in {"rsi", REGISTER_NONE}} \cup
    {ImmOp(sz, W(5)) : sz \in {1, 2, 4, 8, 3}}

InitType ==
    /\ IdleBuild
    /\ \E op \in TypeOps, ptr \in BOOLEAN, field \in Fields :
          unit = [phase |-> "type", op |-> op, ptr |-> ptr, field |-> field,
                  t |-> TYPE_NULL_PTR]

RunOperandType ==
    /\ unit.phase = "type"
    /\ unit' = [unit EXCEPT
                  !.phase = "typeDone",
                  !.t = getOperandType(I, unit.op, unit.ptr, unit.field)]
    /\ UNCHANGED build

NextType == RunOperandType

SpecType == InitType /\ [][NextType]_vars

\* C19: getOperandType gives the 8-bit integer type for the fields access
\* and type and the 64-bit integer type for size; the null type for displ,
\* base, index or scale of an operand that is not a memory operand; for a
\* pointer request without a field, a 32-bit register gives the 64-bit type
\* with the pointer tag, and an immediate gets the const tag with the pointer
\* tag; a null operand gives the null type.
C19_OperandTypes ==
    unit.phase = "typeDone" =>
        /\ unit.op = NullOp => unit.t = Type("nullptr", FALSE, FALSE)
        /\ (unit.op # NullOp /\ unit.field \in {"access", "type"}) =>
              unit.t = Type("int8", FALSE, FALSE)
        /\ (unit.op # NullOp /\ unit.field = "size") =>
              unit.t = Type("int64", FALSE, FALSE)
        /\ (unit.op # NullOp /\ unit.field \in {"displ", "base", "index", "scale"}
               /\ unit.op.type # "mem") =>
              unit.t = Type("nullptr", FALSE, FALSE)
        /\ (unit.field = "none" /\ unit.ptr /\ unit.op.type = "reg"
               /\ getRegSize(unit.op.reg) = 4) =>
              unit.t = Type("int64", TRUE, FALSE)
        /\ (unit.field = "none" /\ unit.ptr /\ unit.op.type = "imm") =>
              /\ unit.t.ptr /\ unit.t.const
              /\ unit.t.base = (IF unit.op.size = 2 THEN "int16"
                                ELSE IF unit.op.size = 4 THEN "int32"
                                ELSE IF unit.op.size = 8 THEN "int64" ELSE "int8")
        /\ (unit.field = "none" /\ unit.op.type \in {"reg", "mem"}) => ~unit.t.const

C19_WidenedRegister ==
    /\ unit.phase = "typeDone"
    /\ unit.op = RegOp("ecx", ACCESS_READ)
    /\ unit.ptr /\ unit.field = "none"
    /\ unit.t = Type("int64", TRUE, FALSE)

(***************************************************************************)
(* SpecDisp: the displacement encoding of sendLoadFromMemOpToR64, over     *)
(* bases of every class, with and without an index, and displacements      *)
(* either side of the byte boundaries.                                     *)
(***************************************************************************)
DispBases == {"rax", "rbp", "ebp", "r13", "r13d", "r12", "rsp", REGISTER_NONE}

DispValues ==
    {Zero, W(8), W(127), W(128), W(-128), W(-129), W(256), INT32_MAX} \cup
    {W(0 - REDZONE - 8 * n) : n \in 1..(MemOpArgs + 1)} \cup
    {W(8 - REDZONE - 8 * n) : n \in 1..(MemOpArgs + 1)}

InitDisp ==
    /\ IdleBuild
    /\ \E d \in DispValues, b \in DispBases, x \in {REGISTER_NONE, "rsi"},
          l \in BOOLEAN, n \in 0..MemOpArgs :
          unit = [phase |-> "disp", disp |-> d, base |-> b, index |-> x,
                  address |-> W(4096), lea |-> l, regno |-> n,
                  info |-> CallInfo(FALSE, FALSE, FALSE, n + 1, TRUE),
                  res |-> MemResult(TRUE, <<>>, CallInfo(FALSE, FALSE, FALSE, n + 1,
                                                         TRUE), <<>>, FALSE)]

RunDisp ==
    /\ unit.phase = "disp"
    /\ \E ub \in UBOutcomes :
          unit' = [unit EXCEPT
                     !.phase = "dispDone",
                     !.res = sendLoadFromMemOpToR64(
                                 MemOpInstr(unit.address), unit.info, 8,
                                 REGISTER_NONE, unit.disp, unit.base,
                                 unit.index, 1, unit.lea, unit.regno, ub)]
    /\ UNCHANGED build

NextDisp == RunDisp

SpecDisp == InitDisp /\ [][NextDisp]_vars

\* Reading the encoding back: the ModRM byte follows the optional
\* address-size prefix, the REX prefix and the one-byte opcode; the SIB byte,
\* when the ModRM byte asks for one, follows it.
ModRM(toks) == IF toks[1] = Byte(103) THEN toks[4].r ELSE toks[3].r

SIB(toks) == IF toks[1] = Byte(103) THEN toks[5].r ELSE toks[4].r

DispToks(toks) == SelectSeq(toks, LAMBDA t : t.op \in {"int8", "int32", "rel32"})

Encoded == unit.phase = "dispDone" /\ unit.res.ok /\ ~unit.res.fatal

\* The minimal-encoding rule for the adjusted displacement.
MinimalRule(u) ==
    IF Adjusted(u) = Zero /\ u.base \notin {"rbp", "ebp", "r13", "r13d"}
    THEN /\ ModRM(u.res.toks) \div 64 = 0
         /\ DispToks(u.res.toks) = <<>>
    ELSE IF WLe(W(-128), Adjusted(u)) /\ WLe(Adjusted(u), W(127))
    THEN /\ ModRM(u.res.toks) \div 64 = 1
         /\ DispToks(u.res.toks) = <<Tok("int8", 0, 0, Adjusted(u))>>
    ELSE /\ ModRM(u.res.toks) \div 64 = 2
         /\ Len(DispToks(u.res.toks)) = 1
         /\ DispToks(u.res.toks)[1].op = "int32"
         /\ FitsI32(Adjusted(u)) => DispToks(u.res.toks)[1].v = Adjusted(u)

\* C20 as stated: every encoding of an operand that is not RIP-relative
\* follows the minimal-encoding rule (no displacement and mod=00 for a zero
\* displacement unless the base is of the rBP class, else 8 bits and mod=01
\* when it fits a signed byte, else 32 bits and mod=10), and the width of the
\* displacement token matches the mod field.
C20_MinimalDisplacement == Encoded => MinimalRule(unit)

\* C20 amended: the rule holds for an operand with a base register; an
\* operand without one is always encoded with mod=00, a SIB byte whose base
\* field is 101 and a 32-bit displacement.
C20_MinimalDisplacementWithBase ==
    Encoded =>
        IF unit.base # REGISTER_NONE THEN MinimalRule(unit)
        ELSE /\ ModRM(unit.res.toks) \div 64 = 0
             /\ ModRM(unit.res.toks) % 8 = 4
             /\ SIB(unit.res.toks) % 8 = 5
             /\ DispToks(unit.res.toks) = <<Tok("int32", 0, 0, unit.disp)>>

C20_ExplicitZeroByte ==
    /\ Encoded
    /\ unit.base = "r13" /\ unit.index = REGISTER_NONE /\ unit.disp = Zero
    /\ ModRM(unit.res.toks) \div 64 = 1
    /\ DispToks(unit.res.toks) = <<Tok("int8", 0, 0, Zero)>>

(***************************************************************************)
(* SpecEnc: sendLoadFromMemOpToR64 on its own, over trackers in which the  *)
(* base and index registers may already hold arguments, and the tokens it  *)
(* emits executed.  The bytes of the encoded instruction write only the    *)
(* destination register, which the machine does not follow.                *)
(***************************************************************************)
MaxEncArgs == 3

EncInfos ==
    {LoadedArgs(CallInfo(c, FALSE, FALSE, n, TRUE), k) :
        c \in BOOLEAN, n \in 1..(MaxEncArgs + 1), k \in 0..(MaxEncArgs - 1)}

EncBases == {REGISTER_NONE, "rdi", "rsi", "rax", "rbx", "rsp", "rip"}

EncIndexes == {REGISTER_NONE, "rdi", "rsi", "rcx"}

EncDisps == {Zero, W(8), INT32_MAX}

EncSizes == {8, 16}

EncInstr == Instr("mov", W(4096), MemOpInstrSize, <<>>, <<>>)

InitEnc ==
    /\ IdleBuild
    /\ \E ci \in EncInfos, b \in EncBases, x \in EncIndexes, d \in EncDisps,
          z \in EncSizes, g \in {REGISTER_NONE, "fs"}, l \in BOOLEAN :
          /\ getArgRegIdx(Cardinality(ci.used)) >= 0
          /\ b = "rip" => x = REGISTER_NONE
          /\ unit = [phase |-> "enc", info |-> ci, base |-> b, index |-> x,
                     disp |-> d, size |-> z, seg |-> g, lea |-> l,
                     regno |-> getArgRegIdx(Cardinality(ci.used)),
                     m0 |-> TempMachine(ci), m |-> TempMachine(ci),
                     res |-> MemResult(TRUE, <<>>, ci, <<>>, FALSE)]

EncRun(u, ub) ==
    sendLoadFromMemOpToR64(EncInstr, u.info, u.size, u.seg, u.disp, u.base,
                           u.index, 1, u.lea, u.regno, ub)

RunEnc ==
    /\ unit.phase = "enc"
    /\ \E ub \in UBOutcomes :
          unit' = [unit EXCEPT
                     !.phase = "encDone",
                     !.res = EncRun(unit, ub),
                     !.m = Exec(unit.m, EncRun(unit, ub).toks, 1)]
    /\ UNCHANGED build

NextEnc == RunEnc

SpecEnc == InitEnc /\ [][NextEnc]_vars

\* The tokens that write a register, and those that move %rsp.
WritesReg(tok) ==
    tok.op \in {"movsx_i32", "movzx_i32", "mov_i64", "mov_r64", "load_stack",
                "load_stack32", "load_stack16", "load_stack8", "lea_stack",
                "lea_pcrel", "mov_pcrel", "mov_r32", "mov_r16", "mov_r8",
                "mov_r8h"}

MovesRSP(tok) ==
    \/ tok.op \in {"push", "pop"}
    \/ WritesReg(tok) /\ tok.r = RSP_IDX

\* C21: a memory-operand encoding request, successful or failed, leaves
\* rsp_offset and the pushed registers of the tracker as they were, and
\* emits no token that moves %rsp: a temporary goes to a register other than
\* %rsp or to a slot below %rsp.
C21_NoStackDisplacement ==
    unit.phase = "encDone" =>
        /\ unit.res.info.rsp_offset = unit.info.rsp_offset
        /\ unit.res.info.pushed = unit.info.pushed
        /\ \A i \in 1..Len(unit.res.toks) :
              /\ ~MovesRSP(unit.res.toks[i])
              /\ unit.res.toks[i].op = "store_stack" => unit.res.toks[i].s < 0
        /\ unit.m.regs[RSP_IDX] = unit.m0.regs[RSP_IDX]

\* A successful request that kept two temporaries in two redzone slots.
C21_TemporariesKept ==
    /\ unit.phase = "encDone" /\ unit.res.ok
    /\ \E i, j \in 1..Len(unit.res.toks) :
          /\ unit.res.toks[i].op = "store_stack"
          /\ unit.res.toks[j].op = "store_stack"
          /\ unit.res.toks[i].s # unit.res.toks[j].s

\* The registers of the base and the index of a request hold what they held
\* before it.
BaseIndexKept(u) ==
    \A reg \in {u.base, u.index} \ {REGISTER_NONE, "rip", getReg(u.regno)} :
        u.m.regs[getRegIdx(reg)] = u.m0.regs[getRegIdx(reg)]

\* C22: when sendLoadFromMemOpToR64 reports failure, the tokens of the
\* request are exactly the load of 0 into the destination register (no
\* prefix, REX, opcode or ModRM byte, no temporary save or restore without
\* its undo) and the base and index registers hold what they held before.
C22_FailureEmitsOnlyZero ==
    (unit.phase = "encDone" /\ ~unit.res.ok /\ ~unit.res.fatal) =>
        /\ unit.res.toks = sendSExtFromI32ToR64(Zero, unit.regno)
        /\ BaseIndexKept(unit)

\* The same for the failures found before the temporaries are opened: the
\* segment test (line 234) and the displacement test (line 377).
FailureEmitsOnlyZeroButSize ==
    (unit.phase = "encDone" /\ ~unit.res.ok /\ ~unit.res.fatal
        /\ unit.res.warn # <<"size">>) =>
        /\ unit.res.toks = sendSExtFromI32ToR64(Zero, unit.regno)
        /\ BaseIndexKept(unit)

\* The tokens of a request that save the base or the index register (a move
\* to a scratch register or a store to a redzone slot), and where a save
\* puts the value.
IsTempSave(u, tok) ==
    \/ /\ tok.op = "mov_r64"
       /\ tok.s \in {getRegIdx(u.base), getRegIdx(u.index)}
       /\ tok.r \notin {getRegIdx(u.base), getRegIdx(u.index)}
    \/ /\ tok.op = "store_stack"
       /\ tok.r \in {getRegIdx(u.base), getRegIdx(u.index)}

SaveLoc(tok) == IF tok.op = "mov_r64" THEN <<"reg", tok.r>> ELSE <<"slot", tok.s>>

BothClobberedAndUsed(u) ==
    /\ u.base # u.index
    /\ {u.base, u.index} \subseteq (u.info.clobbered \cap u.info.used)

\* C23: in an encoding whose base and index are different registers, both
\* clobbered and used, the two temporary saves go to two distinct places,
\* neither of them the destination, the base or the index register, and
\* after the two undo steps the base and the index hold what they held just
\* before the encoding.
C23_TwoTemporariesDistinct ==
    (unit.phase = "encDone" /\ unit.res.ok /\ BothClobberedAndUsed(unit)) =>
        /\ \A i, j \in 1..Len(unit.res.toks) :
              (i # j /\ IsTempSave(unit, unit.res.toks[i])
                     /\ IsTempSave(unit, unit.res.toks[j])) =>
                  SaveLoc(unit.res.toks[i]) # SaveLoc(unit.res.toks[j])
        /\ \A i \in 1..Len(unit.res.toks) :
              IsTempSave(unit, unit.res.toks[i]) =>
                  SaveLoc(unit.res.toks[i]) # <<"reg", unit.regno>>
        /\ BaseIndexKept(unit)

\* The same where no scratch register is free and both saves go to the
\* redzone.
TwoTemporariesDistinctInRedzone ==
    (unit.phase = "encDone" /\ unit.res.ok /\ BothClobberedAndUsed(unit)
        /\ getScratch(unit.info, <<getReg(unit.regno), unit.base, unit.index>>)
              = REGISTER_INVALID) =>
        /\ \E i, j \in 1..Len(unit.res.toks) :
              /\ unit.res.toks[i].op = "store_stack"
              /\ unit.res.toks[j].op = "store_stack"
              /\ unit.res.toks[i].s # unit.res.toks[j].s
        /\ BaseIndexKept(unit)

(***************************************************************************)
(* Properties of the argument dispatcher on register references, failures  *)
(* and the stack-argument area.                                            *)
(***************************************************************************)
\* The register a pass-by-reference argument refers to: the register of a
\* register argument, or the register, base or index of the operand.
RefReg ==
    IF CurArg.kind = "register" THEN CurArg.reg
    ELSE IF CurArg.field = "base" THEN CurOp.mem.base
    ELSE IF CurArg.field = "index" THEN CurOp.mem.index
    ELSE CurOp.reg

ByRefRegister ==
    /\ CurArg.ptr
    /\ \/ CurArg.kind = "register"
       \/ /\ CurArg.kind \in OperandKinds
          /\ CurOp # NullOp
          /\ \/ CurArg.field = "none" /\ CurOp.type = "reg"
             \/ /\ CurArg.field \in {"base", "index"}
                /\ CurOp.type = "mem"
                /\ RefReg # REGISTER_NONE

LeaOfSlot(tok) == tok.op = "lea_stack" /\ tok.r = getArgRegIdx(argno)

\* The step's address-of-slot instructions take the address of the saved
\* slot of RefReg, and there is none (constant 0 is loaded) when RefReg
\* cannot be pushed.
SlotAddressIsOfSavedReg ==
    /\ \A i \in 1..Len(StepToks) :
          LeaOfSlot(StepToks[i]) =>
              /\ isSaved(info', RefReg)
              /\ getOffset(info', RefReg) >= 0
              /\ StepToks[i].s = getOffset(info', RefReg) +
                                    (IF getRegHigh(RefReg) THEN 1 ELSE 0)
    /\ ~sendSaveRegToStack(SavedArgReg.info, RefReg).ok =>
          /\ \A i \in 1..Len(StepToks) : ~LeaOfSlot(StepToks[i])
          /\ ZeroLoadedLast

\* C24: when the address of a register's saved slot is loaded for a
\* pass-by-reference argument (a register by reference, or the register,
\* base or index of an operand by reference), the register is saved and the
\* offset is that of its slot; when the register cannot be pushed no such
\* instruction is emitted and constant 0 is loaded in its place.
C24_SlotAddressOnlyIfSaved ==
    [][(ArgStep /\ pc' = "args" /\ ~st'.err /\ ByRefRegister) =>
          SlotAddressIsOfSavedReg]_vars

\* The same for the references that go through sendLoadRegToArg (lines
\* 499-515): the register, base or index of an operand.
OperandSlotAddressOnlyIfSaved ==
    [][(ArgStep /\ pc' = "args" /\ ~st'.err /\ ByRefRegister
           /\ CurArg.kind \in OperandKinds) =>
          SlotAddressIsOfSavedReg]_vars

\* The step ended with a diagnostic and the load of constant 0 in place of
\* the argument's value.
FailedRecoverably ==
    /\ ArgStep /\ pc' = "args" /\ ~st'.err
    /\ warns' # warns
    /\ ZeroLoadedLast

RegisterByValue == CurArg.kind = "register" /\ ~CurArg.ptr

\* C25 as the specification words it: whenever an argument fails recoverably
\* and constant 0 is loaded in its place, the type entered in the signature
\* is the null-pointer type, whatever the argument's kind.
C25_FailureTypeIsNull ==
    [][FailedRecoverably => sig' = Append(sig, TYPE_NULL_PTR)]_vars

\* C25: every diagnostic of the dispatcher comes with the load of constant
\* 0; the type entered in the signature is then the null-pointer type,
\* except for a register passed by value that cannot be moved, whose type is
\* the integer type of the register's size (int64_t for a size other than
\* 1, 2 or 4), and for the target and next arguments, whose type is
\* const void * whether the memory-operand load of the jump target succeeds
\* or fails.
C25_FailureTypeIsNullButRegisterAndTarget ==
    [][(ArgStep /\ pc' = "args" /\ ~st'.err /\ warns' # warns) =>
          /\ ZeroLoadedLast
          /\ sig' = Append(sig,
                IF RegisterByValue
                THEN (IF getRegSize(CurArg.reg) \in {1, 2, 4}
                      THEN SizeType(getRegSize(CurArg.reg)) ELSE TYPE_INT64)
                ELSE IF CurArg.kind \in {"target", "next"} THEN TYPE_CONST_VOID_PTR
                ELSE TYPE_NULL_PTR)]_vars

\* A build whose target argument's memory-operand load failed: constant 0
\* was loaded and the type entered is const void *.
C25_TargetLoadFailed ==
    /\ IsCall /\ pc = "args" /\ argno = 1
    /\ action.args[1].kind = "target"
    /\ Len(warns) = 1 /\ warns[1].code = "size"
    /\ sig = <<TYPE_CONST_VOID_PTR>>
    /\ st.data[Len(st.data)] = Tok("movsx_i32", getArgRegIdx(0), 0, Zero)

RipByValue == CurArg.kind = "register" /\ ~CurArg.ptr /\ CurArg.reg = "rip"

\* C26: for a register-by-value argument naming %rip the step emits exactly
\* one position-independent load into the argument register: of .Lcontinue
\* when the call is made after the instruction, of .Linstruction for every
\* other call timing.
C26_RipLoadedOnce ==
    [][(ArgStep /\ pc' = "args" /\ ~st'.err /\ RipByValue) =>
          /\ StepToks = SavedArgReg.toks \o
                sendLeaFromLabelToR64(IF action.call = "after" THEN "continue"
                                      ELSE "instruction", getArgRegIdx(argno))
          /\ sig' = Append(sig, TYPE_CONST_VOID_PTR)]_vars

\* The same for the call timings other than after, and what the step emits
\* for an after-call: the load of .Lcontinue followed by the load of
\* .Linstruction into the same register.
RipLoadedOnceUnlessAfter ==
    [][(ArgStep /\ pc' = "args" /\ ~st'.err /\ RipByValue) =>
          /\ action.call # "after" =>
                StepToks = SavedArgReg.toks \o
                    sendLeaFromLabelToR64("instruction", getArgRegIdx(argno))
          /\ action.call = "after" =>
                StepToks = SavedArgReg.toks \o
                    sendLeaFromLabelToR64("continue", getArgRegIdx(argno)) \o
                    sendLeaFromLabelToR64("instruction", getArgRegIdx(argno))
          /\ sig' = Append(sig, TYPE_CONST_VOID_PTR)]_vars

\* The tokens loadArgs ends with, after the last argument is loaded: the
\* pushes of the stack arguments and the reloads of lines 1438-1449.
StackArgPart == SubSeq(st.data, mark + 1, EntryEnd(st.data, mark + 1) - 1)

IsLeaRSP(tok) == tok.op = "lea_rsp"

\* C27: restoreState begins, before any pop, with one adjustment of %rsp
\* that releases 8 bytes for each stack argument pushed at the end of
\* loadArgs, and holds no such adjustment when none was pushed; the
\* registers reloaded after those pushes are read at their saved offset plus
\* the same number of bytes.
C27_StackArgsReleased ==
    /\ [](IsCall /\ pc \in {"restoreRSP", "data", "done"} =>
            LET pushed == Len(Pushes(StackArgPart))
                rs == EntryN(3)
            IN  /\ rsp_args_offset = 8 * pushed
                /\ IF pushed > 0
                   THEN /\ Len(rs) >= 1
                        /\ rs[1] = Tok("lea_rsp", RSP_IDX, 8 * pushed, Zero)
                        /\ \A i \in 2..Len(rs) : ~IsLeaRSP(rs[i])
                   ELSE \A i \in 1..Len(rs) : ~IsLeaRSP(rs[i]))
    /\ [][(pc = "args" /\ pc' = "function") =>
             \A i \in (mark' + 1)..Len(st'.data) :
                 st'.data[i].op = "load_stack" =>
                     st'.data[i].s =
                         getOffset(info, getReg(st'.data[i].r)) +
                         8 * Len(Pushes(SubSeq(st'.data, mark' + 1,
                                               Len(st'.data))))]_vars

\* A call that returned with two stack arguments released and a register
\* reloaded over them.
C27_TwoReleased ==
    /\ IsCall /\ pc = "done" /\ ~action.clean
    /\ Len(Pushes(StackArgPart)) = 2
    /\ EntryN(3)[1] = Tok("lea_rsp", RSP_IDX, 16, Zero)
    /\ EntryN(3)[2].op = "pop"
    /\ \E i \in 1..Len(StackArgPart) :
          StackArgPart[i].op = "load_stack" /\ StackArgPart[i].s >= 16

====
